---- MODULE Spec2Model ----
(***************************************************************************)
(* Model of the event-driven arbitrage monitor of                          *)
(* src/testbot/bot/final_bot.py (class ArbitrageMonitor).                  *)
(*                                                                         *)
(* The program is an asyncio program: one orchestrator coroutine           *)
(* (monitor_opportunities), one watcher task per verified (token, DEX)     *)
(* pair (subscribe_to_swap) and one fire-and-forget task per detected      *)
(* opportunity (execute_arbitrage).  Tasks only interleave at an await     *)
(* that suspends, so every action below is the code one task runs between  *)
(* two such awaits; the outcome of the awaited call (an RPC result, an     *)
(* exception, a timeout) is the action's input, drawn with \E.             *)
(*                                                                         *)
(* Prices are exact numbers counted in thousands of stable units, so that  *)
(* the sanity bound of get_token_price (1e12) is representable; the        *)
(* spread and profit comparisons are done by cross-multiplication, which   *)
(* is exact where the code uses binary floating point.                     *)
(***************************************************************************)
EXTENDS Integers, Sequences, FiniteSets, TLC

\* ------------------------------------------------------------------ bounds

\* consecutive_errors is capped at this value by the guards of the model
MaxErrors == 13
\* largest number of log entries one poll returns
MaxBatch == 2
\* number of execute_arbitrage tasks ever created
MaxExec == 2
\* log entries counted as never returned to a watcher
MaxLost == 2
\* on-chain decimals() calls per address after which the call succeeds
MaxDecimalsCalls == 4

\* --------------------------------------------------------- configuration

selected_tokens == <<"TKA">>
selected_dexes == <<"uniswap_v2", "pancake">>

Tokens == {selected_tokens[i] : i \in 1..Len(selected_tokens)}
Dexes == {selected_dexes[i] : i \in 1..Len(selected_dexes)}
Pairs == Tokens \X Dexes
ExecIds == 1..MaxExec

\* the (token, dex_key) combinations in the order of the nested loops
\* `for token in tokens: for dex_key in dexes`
pair_seq(tokens, dexes) ==
  [i \in 1..(Len(tokens) * Len(dexes)) |->
     << tokens[((i - 1) \div Len(dexes)) + 1], dexes[((i - 1) % Len(dexes)) + 1] >>]

PairSeq == pair_seq(selected_tokens, selected_dexes)

\* what select_dexes can leave in self.selected_dexes: it takes the numbers
\* typed, keeps those in range and accepts any list of two or more keys,
\* the same key twice included
DexSelections == {<< a, b >> : a \in Dexes, b \in Dexes}

\* self.stable_tokens: the one stable asset, and every address whose
\* decimals are looked up
Stable == "USDC"
Addrs == Tokens \cup {Stable}

\* what decimals() returns on chain: 6 for USDC (the code relies on it when
\* it scales minProfit), 18 for the monitored token
UsdcDecimals == 6
TrueDecimals(a) == IF a = Stable THEN UsdcDecimals ELSE 18
\* what get_token_decimals returns when the lookup fails
DefaultDecimals == 18
\* "address not in self._decimals_cache"
NotCached == -1

min_profit_threshold == 10
max_flash_loan_amount == 5000
\* the value estimate_gas_cost returns when the estimate fails
GasFallbackUsd == 10
estimated_gas_limit == 600000
\* 1e12 stable units, in thousands of stable units
SanityBound == 1000000000
\* "no price": what price_cache.get(...).get(dex) / get_token_price give (None)
NoPrice == 0

\* --------------------------------------------------------- input domains

\* router quotes, in thousands of stable units per token.  255/250 is a
\* spread of 2 %; 252/250 is exactly 0.8 %, 375/250 exactly 50 % and 375/252
\* lies inside the band; a quiet market quotes one price everywhere
QuoteAmounts == {250, 255}
BandAmounts == {250, 252, 375}
QuietAmounts == {250}
\* 2e11, 1e12 and 2e12 stable units
SanityAmounts == {200000000, 1000000000, 2000000000}
\* the market of Spec, and a quote of exactly 1e12
CacheAmounts == {250, 255, 1000000000}
Quotes(amounts) ==
  {[ok |-> FALSE, amount |-> 0]} \cup {[ok |-> TRUE, amount |-> a] : a \in amounts \cup {0}}

\* what w3.eth.get_gas_price returns (in gwei) and what the ETH/USD feed
\* answers (ok = FALSE: the call raised, or the answer has no price).  The
\* feed is not asked when the gas price read failed.  At 50 gwei the
\* estimate is 0.03 ETH: 90 USD at 3000 USD/ETH, 120 USD at 4000.  With a
\* spread of 2 % the gross profit is 100: a gas cost of 90 leaves exactly
\* the threshold, 120 leaves a loss
GasPriceReads == {[ok |-> FALSE, gwei |-> 0], [ok |-> TRUE, gwei |-> 50]}
FeedReads ==
  {[ok |-> FALSE, usd |-> 0], [ok |-> TRUE, usd |-> 3000], [ok |-> TRUE, usd |-> 4000]}
NoGasRead == [gas_price |-> [ok |-> FALSE, gwei |-> 0], feed |-> [ok |-> FALSE, usd |-> 0],
              called |-> FALSE]
GasOutcomes ==
  {g \in [gas_price : GasPriceReads, feed : FeedReads, called : {TRUE}] :
     g.gas_price.ok \/ ~g.feed.ok}

\* the exceptions a poll or a filter creation raises ("other": any
\* exception whose text does not contain 'filter not found')
PollErrors == {"filter not found", "other"}
NoErrors == {}

\* the outcomes of an on-chain decimals() call
DecimalsOk == {"ok"}
DecimalsAny == {"ok", "fail"}

\* the sizes of the batches get_new_entries returns
Batches == 0..MaxBatch
SingleEntry == {0, 1}

VARIABLES
  is_monitoring,   \* self.is_monitoring
  price_cache,     \* self.price_cache, per (token, dex); NoPrice = no entry
  trade_lock,      \* self.trade_lock: [locked, waiters]
  holder,          \* the execution task that holds trade_lock (0 = none)
  pools,           \* chain state: the pairs whose factory has a pool
  orch,            \* monitor_opportunities: [pc, idx, valid_pairs]
  watcher,         \* subscribe_to_swap tasks, per pair
  exec,            \* execute_arbitrage tasks, per task id
  zero_seen,       \* pairs for which getPair has returned the zero address
  decimals_cache,  \* self._decimals_cache, per address; NotCached = no entry
  decimals_calls,  \* number of on-chain decimals() calls that returned, per address
  decimals_seen,   \* the values get_token_decimals has returned, per address
  price_decimals,  \* the stable decimals each cached price was normalised with
  probe,           \* the last get_token_price call made on its own: input, result
  last_eval,       \* the last profit decision, and which evaluations are out of date
  loop_thread,     \* the synchronous outbound call the event loop thread is inside
  config,          \* RPC_URL, PRIVATE_KEY, CONTRACT_ADDRESS as main reads them
  selection,       \* the last min/max selection made on its own: input, result
  event_filter,    \* per pair: the log filter of subscribe_to_swap and the chain log
  testbot          \* testbot.py: its ArbitrageMonitor and its polling coroutine

\* the state of the decimal normaliser
dec_vars == << decimals_cache, decimals_calls, decimals_seen >>

vars == << is_monitoring, price_cache, trade_lock, holder, pools, orch,
           watcher, exec, zero_seen, dec_vars, price_decimals, probe, last_eval, loop_thread,
           config, selection, event_filter, testbot >>

\* ------------------------------------------------------------- helpers

Min(a, b) == IF a <= b THEN a ELSE b

Range(s) == {s[i] : i \in 1..Len(s)}

\* self.dexes[dex_key].router_address and self.account.address.  An address
\* stands for its 20 bytes: to_checksum_address changes the case of the hex
\* digits of its text, not the address
router_address ==
  [d \in Dexes |-> IF d = "uniswap_v2" THEN "0x4752ba5d" ELSE "0x8cfe327c"]
account_address == "account"

NoSnap == [min_dex |-> "", max_dex |-> "", min_price |-> 0, max_price |-> 0]

\* amount is flash_loan_amount_usd * 10 ** stable_decimals, kept as the
\* pair (usd, exp) because the product does not fit the integers of the model
\* expected_profit and net_profit are kept as numerators over buy_price
\* (gross = notional * (sell - buy) / buy is not a whole number)
NoOpp == [token |-> "", buy_dex |-> "", sell_dex |-> "", buy_price |-> 0,
          sell_price |-> 0, gas_cost |-> 0, amount |-> [usd |-> 0, exp |-> 0],
          expected_profit |-> 0, net_profit |-> 0]

\* the last profit decision (valid: no cache entry has changed since its
\* evaluation read the cache) and the watchers whose running evaluation
\* read the cache before its latest change
NoEval == [valid |-> FALSE, snap |-> NoSnap, gas |-> 0, stale |-> {}]

\* the event loop thread is inside no outbound call: it runs the tasks
\* that are ready
NoCall == [caller |-> << >>, gas_price |-> [ok |-> FALSE, gwei |-> 0]]

\* the filter subscribe_to_swap polls and the Swap log entries of the pool:
\* live = the watcher holds a filter it will poll, pending = entries
\* appended since that filter was created or last polled, lost = entries
\* appended while the watcher held no filter, or left in a filter it gave up
NoFilter == [live |-> FALSE, pending |-> 0, lost |-> 0]

\* testbot.py, the last _execute_arbitrage call: none was made
NoExecution ==
  [fee |-> 0, gas |-> 0, balance |-> [units |-> 0, below |-> 0],
   result |-> "", signed |-> FALSE, sent |-> FALSE]

\* testbot.py, ArbitrageMonitor(simulate, monitor_only) after __init__:
\* the two flags, the gas price limit read from the environment, the pools
\* found on chain, no filters yet; the polling coroutine is not scheduled.
\* polled, processed, raised and outcome describe the latest polling cycle;
\* detected counts the opportunities logged, invoked, signed and sent the
\* _execute_arbitrage calls, signatures and submitted transactions.
TestbotMonitor(simulate, monitor_only, limit, found) ==
  [simulate |-> simulate, monitor_only |-> monitor_only,
   gas_price_gwei_limit |-> limit, pools |-> found,
   swap_filters |-> << >>, poll |-> "not_started", cancelled |-> FALSE,
   cycles |-> 0, polled |-> << >>, processed |-> << >>, raised |-> {},
   outcome |-> << >>, escaped |-> FALSE,
   detected |-> 0, invoked |-> 0, signed |-> 0, sent |-> 0, last |-> NoExecution]

\* the final_bot.py program runs alone: no testbot.py monitor does anything
NoTestbot == TestbotMonitor(TRUE, TRUE, 10, {})

\* no selection has been made on its own
NoSelection ==
  [order |-> << >>, row |-> << >>, min_dex |-> "", max_dex |-> "", outcome |-> "",
   called |-> FALSE]

NoProbe == [q |-> [ok |-> FALSE, amount |-> 0], d |-> 0, price |-> 0, called |-> FALSE]

WatcherInit ==
  [pc |-> "NOT_STARTED", consecutive_errors |-> 0, sleep_time |-> 0,
   error |-> "", entries |-> 0, snap |-> NoSnap, verdict |-> "",
   cancel_requested |-> FALSE, stop_cause |-> "", polled |-> FALSE,
   stable_decimals |-> 0, gas |-> 0, gas_read |-> NoGasRead]

\* an execute_arbitrage task: where it is, its opportunity, whether it found
\* the lock taken when it asked for it, whether its transaction was sent,
\* its params_tuple, the status of its receipt
ExecInit ==
  [pc |-> "none", opp |-> NoOpp, contended |-> FALSE, submitted |-> FALSE,
   params |-> << >>, status |-> -1]

\* a finished task (nothing of it is kept)
ExecDone == [ExecInit EXCEPT !.pc = "done"]

\* ---------------------------------------------------- configuration

\* a configuration string, by what the start-up checks look at: its
\* length, whether it begins with 0x, whether what follows the 0x is all
\* hexadecimal digits, and whether it is the placeholder of the template
Text(len, prefixed, hex, placeholder) ==
  [len |-> len, prefixed |-> prefixed, hex |-> hex, placeholder |-> placeholder]

\* os.getenv gave None or the empty string
NoValue == Text(0, FALSE, FALSE, FALSE)

\* the private keys tried: none, the placeholder, 0x + 4 hex digits, 64
\* characters that are not all hexadecimal, 0x + 64 hex digits
GoodKey == Text(66, TRUE, TRUE, FALSE)
PrivateKeys ==
  {NoValue, Text(21, FALSE, FALSE, TRUE), Text(6, TRUE, TRUE, FALSE),
   Text(64, FALSE, FALSE, FALSE), GoodKey}

\* the contract addresses tried: none, 0x + 40 characters that are not all
\* hexadecimal, 0x + 39 hex digits, 40 hex digits, 0x + 40 hex digits
GoodAddress == Text(42, TRUE, TRUE, FALSE)
ContractAddresses ==
  {NoValue, Text(42, TRUE, FALSE, FALSE), Text(41, TRUE, TRUE, FALSE),
   Text(40, FALSE, TRUE, FALSE), GoodAddress}

\* the RPC URLs tried: none, a string that is no URL, the template URL
\* with its placeholder key, the URL of a node
GoodUrl == [present |-> TRUE, url |-> TRUE, placeholder |-> FALSE]
RpcUrls ==
  {[present |-> FALSE, url |-> FALSE, placeholder |-> FALSE],
   [present |-> TRUE, url |-> FALSE, placeholder |-> FALSE],
   [present |-> TRUE, url |-> TRUE, placeholder |-> TRUE],
   GoodUrl}

Configs == [rpc_url : RpcUrls, private_key : PrivateKeys, contract_address : ContractAddresses]

ValidConfig == [rpc_url |-> GoodUrl, private_key |-> GoodKey, contract_address |-> GoodAddress]

\* the characters after a leading 0x
BodyLen(t) == IF t.prefixed THEN t.len - 2 ELSE t.len

\* `not value`: None or the empty string
Missing(c) ==
  {k \in {"rpc_url", "private_key", "contract_address"} :
     IF k = "rpc_url" THEN ~c.rpc_url.present ELSE c[k].len = 0}

\* w3.is_connected(): a request to the node answered; up says whether the
\* node answers, and only a real URL without the placeholder key reaches one
is_connected(url, up) == url.present /\ url.url /\ ~url.placeholder /\ up

\* Account.from_key: a 32-byte key, as 64 hex digits with or without 0x
from_key(key) == key.hex /\ BodyLen(key) = 64

\* Web3.to_checksum_address: 40 hex digits with or without 0x, in any case
to_checksum_address(a) == a.hex /\ BodyLen(a) = 40

\* validate_inputs of the bott1 variant: placeholders, the key's length
\* and digits, the address's prefix and length
validate_inputs(c) ==
  /\ ~c.private_key.placeholder
  /\ ~c.contract_address.placeholder
  /\ ~c.rpc_url.placeholder
  /\ BodyLen(c.private_key) = 64
  /\ c.private_key.hex
  /\ c.contract_address.prefixed
  /\ c.contract_address.len = 42

\* __init__ without the connection and address checks: the constructor of
\* the bott1 variant, which runs validate_inputs and from_key only
InitValidateInputsOnly(c, up) ==
  /\ Missing(c) = {}
  /\ validate_inputs(c)
  /\ from_key(c.private_key)

\* ArbitrageMonitor.__init__ returns (TRUE) or raises (FALSE)
init_ok(c, up) ==
  /\ Missing(c) = {}
  /\ is_connected(c.rpc_url, up)
  /\ from_key(c.private_key)
  /\ to_checksum_address(c.contract_address)

\* the object __init__ leaves behind, and the chain it is connected to
ObjectInit ==
  /\ is_monitoring = FALSE
  /\ price_cache = [p \in Pairs |-> NoPrice]
  /\ trade_lock = [locked |-> FALSE, waiters |-> << >>]
  /\ holder = 0
  /\ pools \in SUBSET Pairs
  /\ watcher = [p \in Pairs |-> WatcherInit]
  /\ exec = [e \in ExecIds |-> ExecInit]
  /\ zero_seen = {}
  /\ decimals_cache = [a \in Addrs |-> NotCached]
  /\ decimals_calls = [a \in Addrs |-> 0]
  /\ decimals_seen = [a \in Addrs |-> {}]
  /\ price_decimals = [p \in Pairs |-> UsdcDecimals]
  /\ probe = NoProbe
  /\ last_eval = NoEval
  /\ loop_thread = NoCall
  /\ selection = NoSelection
  /\ event_filter = [p \in Pairs |-> NoFilter]

\* main is about to call monitor_opportunities on a monitor constructed
\* from a complete, well-formed configuration
Init ==
  /\ ObjectInit
  /\ orch = [pc |-> "idle", idx |-> 0, valid_pairs |-> << >>, stable_decimals |-> 0,
             pair_seq |-> << >>, tasks |-> << >>]
  /\ config = ValidConfig
  /\ testbot = NoTestbot

\* main starts: the environment holds any of the configurations
InitMain ==
  /\ ObjectInit
  /\ orch = [pc |-> "main", idx |-> 0, valid_pairs |-> << >>, stable_decimals |-> 0,
             pair_seq |-> << >>, tasks |-> << >>]
  /\ config \in Configs
  /\ testbot = NoTestbot


\* ------------------------------------------------------- pure functions

\* (variant: the zero address is not recognised as "no pool")
PairAddressUnchecked(r) == r # "fail"

\* get_pair_address: the pool is found unless the factory returns the zero
\* address or the call raises (both give None)
get_pair_address(r) == r = "pool"

\* what factory.getPair can give for pair p in the current chain state
PairLookups(p) == IF p \in pools THEN {"pool", "fail"} ELSE {"zero", "fail"}

\* price = amounts_out[1] / 10 ** stable_decimals lies below 1e12.  A quote
\* q.amount is the router's output in thousands of stable units; divided by
\* 10 ** 18 instead of 10 ** 6 it is 10 ** 12 times smaller, which is below
\* the bound (and above zero) for every positive amount of the model
BelowSanityBound(amount, d) ==
  IF d = UsdcDecimals THEN amount < SanityBound ELSE TRUE

\* (variant: the bound itself is accepted)
PriceUpToBound(q, d) ==
  IF q.ok /\ 0 < q.amount /\ (BelowSanityBound(q.amount, d) \/ q.amount = SanityBound)
  THEN q.amount ELSE NoPrice

\* get_token_price: None when the router call fails or the price is not in
\* (0, 1e12); otherwise the price.  The result is the quote as normalised
\* with d decimals: the number q.amount, to be read with the scale d
get_token_price(q, d) ==
  IF q.ok /\ 0 < q.amount /\ BelowSanityBound(q.amount, d) THEN q.amount ELSE NoPrice

\* (variant: whatever get_token_price returned is stored)
UpdateStoresNone(cache, p, q, d) == [cache EXCEPT ![p] = get_token_price(q, d)]

\* update_price_for_dex: a price is stored, None leaves the cache alone
update_price_for_dex(cache, p, q, d) ==
  IF get_token_price(q, d) # NoPrice THEN [cache EXCEPT ![p] = get_token_price(q, d)]
  ELSE cache

\* the scale that goes with a stored price
update_price_decimals(pd, p, q, d) ==
  IF get_token_price(q, d) # NoPrice THEN [pd EXCEPT ![p] = d] ELSE pd

\* the cached price of a is at most that of b: with one scale the numbers
\* decide, otherwise the price normalised with more decimals is the smaller
PriceLeq(cache, pd, a, b) ==
  IF pd[a] = pd[b] THEN cache[a] <= cache[b] ELSE pd[a] > pd[b]

PriceEq(cache, pd, a, b) == pd[a] = pd[b] /\ cache[a] = cache[b]

\* gas_price * estimated_gas_limit wei, as ether, times the ETH price: with
\* the gas price in gwei, gwei * limit * usd / 10^9 (the limit is a multiple
\* of 1000, which keeps the product within the integers of the model)
gas_cost_usd(g) ==
  (g.gas_price.gwei * (estimated_gas_limit \div 1000) * g.feed.usd) \div 10 ^ 6

\* (variant: only a failed gas price read falls back to the default)
GasCostFeedUnchecked(g) ==
  IF g.gas_price.ok THEN gas_cost_usd(g) ELSE GasFallbackUsd

\* estimate_gas_cost: the estimate, or 10.0 when anything fails
estimate_gas_cost(g) ==
  IF g.gas_price.ok /\ g.feed.ok THEN gas_cost_usd(g) ELSE GasFallbackUsd

\* (variant: the delay is not capped)
SleepUncapped(n) == 5 * n

\* sleep_time = min(5 * consecutive_errors, 60)
sleep_time_for(n) == Min(5 * n, 60)

\* the dict `prices` of check_and_execute_opportunity: the selected DEXes
\* with a cached price, in selected order
CachedDexes(cache, t) ==
  SelectSeq(selected_dexes, LAMBDA d : cache[<<t, d>>] # NoPrice)

\* min(prices.items(), key=price): the first DEX holding the lowest price
min_price_dex(cache, pd, t) ==
  LET ds == CachedDexes(cache, t)
      i == CHOOSE i \in 1..Len(ds) :
             /\ \A j \in 1..Len(ds) : PriceLeq(cache, pd, <<t, ds[i]>>, <<t, ds[j]>>)
             /\ \A j \in 1..(i - 1) : ~PriceEq(cache, pd, <<t, ds[j]>>, <<t, ds[i]>>)
  IN ds[i]

\* max(prices.items(), key=price): the first DEX holding the highest price
max_price_dex(cache, pd, t) ==
  LET ds == CachedDexes(cache, t)
      i == CHOOSE i \in 1..Len(ds) :
             /\ \A j \in 1..Len(ds) : PriceLeq(cache, pd, <<t, ds[j]>>, <<t, ds[i]>>)
             /\ \A j \in 1..(i - 1) : ~PriceEq(cache, pd, <<t, ds[j]>>, <<t, ds[i]>>)
  IN ds[i]

\* ---- the selection of check_and_execute_opportunity on any price row

\* three of the keys of self.dexes, the orders select_dexes can leave them
\* in, and the cached prices of one token (NoPrice = no entry)
DexKeys == {"uniswap_v2", "pancake", "baseswap"}
SelectionOrders ==
  {o \in [1..3 -> DexKeys] : \A i \in 1..3, j \in 1..3 : o[i] = o[j] => i = j}
PriceRows == [DexKeys -> {NoPrice, 250, 255}]

\* the keys of the dict `prices`, in insertion order: the selected DEXes
\* that have a cached price
prices_keys(order, row) == SelectSeq(order, LAMBDA d : row[d] # NoPrice)

\* min(prices.items(), key=price): the first item holding the lowest price
py_min(keys, row) ==
  keys[CHOOSE i \in 1..Len(keys) :
         /\ \A j \in 1..Len(keys) : row[keys[i]] <= row[keys[j]]
         /\ \A j \in 1..(i - 1) : row[keys[j]] # row[keys[i]]]

\* (variant: the last item holding the highest price)
PyMaxLast(keys, row) ==
  keys[CHOOSE i \in 1..Len(keys) :
         /\ \A j \in 1..Len(keys) : row[keys[j]] <= row[keys[i]]
         /\ \A j \in (i + 1)..Len(keys) : row[keys[j]] # row[keys[i]]]

\* max(prices.items(), key=price): the first item holding the highest price
py_max(keys, row) ==
  keys[CHOOSE i \in 1..Len(keys) :
         /\ \A j \in 1..Len(keys) : row[keys[j]] <= row[keys[i]]
         /\ \A j \in 1..(i - 1) : row[keys[j]] # row[keys[i]]]

\* check_and_execute_opportunity down to `if min_price_dex == max_price_dex`
select_min_max(order, row) ==
  LET keys == prices_keys(order, row)
  IN IF Len(keys) < 2
     THEN [NoSelection EXCEPT !.order = order, !.row = row, !.outcome = "few_prices",
                              !.called = TRUE]
     ELSE [order |-> order, row |-> row,
           min_dex |-> py_min(keys, row), max_dex |-> py_max(keys, row),
           outcome |-> IF py_min(keys, row) = py_max(keys, row) THEN "same_dex"
                       ELSE "goes_on",
           called |-> TRUE]

\* the selection is made for one order and one row of cached prices
SelectCall ==
  /\ \E o \in SelectionOrders, r \in PriceRows : selection' = select_min_max(o, r)
  /\ UNCHANGED << testbot, event_filter, is_monitoring, price_cache, trade_lock, holder, pools, orch, watcher,
                  exec, zero_seen, dec_vars, price_decimals, probe, last_eval,
                  loop_thread, config >>

\* (variant: the band includes its end points)
InBandInclusive(minp, maxp) ==
  /\ 8 * minp <= (maxp - minp) * 100 * 10
  /\ (maxp - minp) * 100 <= 50 * minp

\* 0.8 < ((max_price - min_price) / min_price) * 100 < 50.0
InBand(minp, maxp) ==
  /\ 8 * minp < (maxp - minp) * 100 * 10
  /\ (maxp - minp) * 100 < 50 * minp

\* (variant: a net profit equal to the threshold is enough)
NetProfitableInclusive(minp, maxp, gas) ==
  max_flash_loan_amount * (maxp - minp) - gas * minp >= min_profit_threshold * minp

\* net_profit_usd > min_profit_threshold, where
\* net_profit_usd = max_flash_loan_amount * (price_diff_percent / 100) - gas
NetProfitable(minp, maxp, gas) ==
  max_flash_loan_amount * (maxp - minp) - gas * minp > min_profit_threshold * minp

\* check_and_execute_opportunity up to its first suspending await: the
\* snapshot it works on and how far it gets
EvalSnap(cache, pd, t) ==
  IF Len(CachedDexes(cache, t)) < 2 THEN NoSnap
  ELSE [min_dex |-> min_price_dex(cache, pd, t), max_dex |-> max_price_dex(cache, pd, t),
        min_price |-> cache[<<t, min_price_dex(cache, pd, t)>>],
        max_price |-> cache[<<t, max_price_dex(cache, pd, t)>>]]

\* (variant: the evaluation goes on with fewer than two prices)
EvalVerdictAnyCoverage(cache, pd, t) == "profit_check"

\* two prices normalised with different decimals are a factor of hundreds
\* or more apart, a spread far above 50 %
EvalVerdict(cache, pd, t) ==
  IF Len(CachedDexes(cache, t)) < 2 THEN "few_prices"
  ELSE IF EvalSnap(cache, pd, t).min_dex = EvalSnap(cache, pd, t).max_dex THEN "same_dex"
  ELSE IF pd[<<t, EvalSnap(cache, pd, t).min_dex>>] # pd[<<t, EvalSnap(cache, pd, t).max_dex>>]
       THEN "out_of_band"
  ELSE IF ~InBand(EvalSnap(cache, pd, t).min_price, EvalSnap(cache, pd, t).max_price)
       THEN "out_of_band"
  ELSE "profit_check"

\* get_token_decimals, when its on-chain call returns with outcome o: the
\* value it returns, and what it leaves in the cache (nothing on failure)
DecimalsValue(a, o) == IF o = "ok" THEN TrueDecimals(a) ELSE DefaultDecimals

get_token_decimals(a, o) ==
  /\ decimals_calls' = [decimals_calls EXCEPT ![a] = @ + 1]
  /\ decimals_cache' = IF o = "ok" THEN [decimals_cache EXCEPT ![a] = TrueDecimals(a)]
                       ELSE decimals_cache
  /\ decimals_seen' = [decimals_seen EXCEPT ![a] = @ \cup {DecimalsValue(a, o)}]

\* the outcomes of the decimals() call for address a
DecimalsOutcomes(a, outs) ==
  IF decimals_calls[a] < MaxDecimalsCalls THEN outs ELSE {"ok"}

\* get_token_price up to its first suspending await, for a caller r (its
\* pcs name the three awaits): a cached decimal count is returned at once
StableLookup(r, dc, pcs) ==
  IF dc[Stable] = NotCached THEN [r EXCEPT !.pc = pcs.stable]
  ELSE [r EXCEPT !.pc = pcs.router, !.stable_decimals = dc[Stable]]

Quoting(r, t, dc, pcs) ==
  IF dc[t] = NotCached THEN [r EXCEPT !.pc = pcs.token]
  ELSE StableLookup(r, dc, pcs)

WatcherPcs == [token |-> "DEC_TOKEN", stable |-> "DEC_STABLE", router |-> "REFRESH"]
OrchPcs == [token |-> "fetch_dec_token", stable |-> "fetch_dec_stable", router |-> "fetch"]


\* get_token_price is called with router outcome q while the stable
\* decimals it got are d; what it returns is kept
QuoteCall(amounts, ds) ==
  /\ \E q \in Quotes(amounts), d \in ds :
       probe' = [q |-> q, d |-> d, price |-> get_token_price(q, d), called |-> TRUE]
  /\ UNCHANGED << testbot, event_filter, selection, config, is_monitoring, price_cache, trade_lock, holder, pools, orch, watcher,
                  exec, zero_seen, dec_vars, price_decimals, last_eval, loop_thread >>

\* ------------------------------------------------- chain (environment)

\* a liquidity pool is created on chain; pools are never destroyed
CreatePool(p) ==
  /\ p \notin pools
  /\ pools' = pools \cup {p}
  /\ UNCHANGED << testbot, event_filter, selection, config, is_monitoring, price_cache, trade_lock, holder, orch, watcher,
                  exec, zero_seen,
                  dec_vars, price_decimals, probe, last_eval, loop_thread >>

\* the event loop runs one task at a time on one thread: a task takes a
\* step only while that thread is not inside a synchronous call
LoopFree == loop_thread = NoCall

\* ------------------------------------------------------------ main

MainFrame ==
  UNCHANGED << testbot, event_filter, selection, is_monitoring, price_cache, trade_lock, holder, pools, watcher, exec,
               zero_seen, dec_vars, price_decimals, probe, last_eval, loop_thread, config >>

\* main reads the three variables; with one missing it prints the list and
\* returns, otherwise it goes on to construct the monitor
LoadConfig ==
  /\ LoopFree
  /\ orch.pc = "main"
  /\ orch' = [orch EXCEPT !.pc = IF Missing(config) # {} THEN "exit" ELSE "construct"]
  /\ MainFrame

\* ArbitrageMonitor(rpc_url, private_key, contract_address): it returns,
\* and main is left to start monitoring, or it raises and main logs the
\* error and returns
Construct ==
  /\ LoopFree
  /\ orch.pc = "construct"
  /\ \E up \in BOOLEAN :
       orch' = [orch EXCEPT !.pc = IF init_ok(config, up) THEN "idle" ELSE "exit"]
  /\ MainFrame

\* no token selected, or the operator does not answer y: main returns
Decline ==
  /\ LoopFree
  /\ orch.pc = "idle"
  /\ orch' = [orch EXCEPT !.pc = "exit"]
  /\ MainFrame

\* ------------------------------------------- monitor_opportunities

\* is_monitoring = True and the first get_pair_address of the pre-check,
\* for the DEX selection the operator made (one of sels)
StartMonitoring(sels) ==
  /\ LoopFree
  /\ orch.pc = "idle"
  /\ is_monitoring' = TRUE
  /\ \E sel \in sels :
       orch' = [pc |-> "verify", idx |-> 1, valid_pairs |-> << >>, stable_decimals |-> 0,
                pair_seq |-> pair_seq(selected_tokens, sel), tasks |-> << >>]
  /\ UNCHANGED << testbot, event_filter, selection, config, price_cache, trade_lock, holder, pools, watcher, exec, zero_seen,
                  dec_vars, price_decimals, probe, last_eval, loop_thread >>

\* one get_pair_address of the pre-check loop returns; after the last one
\* either "no valid pools" (flag cleared, return) or the initial price fetch
VerifyPool ==
  /\ LoopFree
  /\ orch.pc = "verify"
  /\ \E r \in PairLookups(orch.pair_seq[orch.idx]) :
       LET p == orch.pair_seq[orch.idx]
           vp == IF get_pair_address(r) THEN Append(orch.valid_pairs, p)
                 ELSE orch.valid_pairs
       IN /\ zero_seen' = IF r = "zero" THEN zero_seen \cup {p} ELSE zero_seen
          /\ IF orch.idx < Len(orch.pair_seq)
             THEN /\ orch' = [orch EXCEPT !.idx = @ + 1, !.valid_pairs = vp]
                  /\ UNCHANGED is_monitoring
             ELSE IF vp = << >>
             THEN /\ orch' = [orch EXCEPT !.pc = "returned", !.idx = 0,
                                          !.valid_pairs = vp]
                  /\ is_monitoring' = FALSE
             ELSE /\ orch' = Quoting([orch EXCEPT !.pc = "fetch", !.idx = 1,
                                                  !.valid_pairs = vp],
                                       vp[1][1], decimals_cache, OrchPcs)
                  /\ UNCHANGED is_monitoring
  /\ UNCHANGED << testbot, event_filter, selection, config, price_cache, trade_lock, holder, pools, watcher, exec,
                  dec_vars, price_decimals, probe, last_eval, loop_thread >>

\* update_price_for_dex has run for pair p: the last decision stays on
\* record as long as no cache entry changes; a change makes every
\* evaluation that is waiting for its decimals or its gas estimate out of
\* date, while the evaluation p starts now reads the cache as it is
CacheWritten(p) ==
  IF price_cache' = price_cache /\ price_decimals' = price_decimals
  THEN [last_eval EXCEPT !.stale = @ \ {p}]
  ELSE [NoEval EXCEPT !.stale = {w \in Pairs \ {p} :
                                   watcher[w].pc \in {"EVAL_DEC", "EVAL_GAS"}}]

\* (variant: the watcher tasks are created when the first fetch returns)
InitialFetchStartsWatchers(amounts) ==
  /\ LoopFree
  /\ orch.pc = "fetch"
  /\ \E q \in Quotes(amounts) :
       /\ price_cache' = update_price_for_dex(price_cache, orch.valid_pairs[orch.idx],
                                              q, orch.stable_decimals)
       /\ price_decimals' = update_price_decimals(price_decimals,
                                                  orch.valid_pairs[orch.idx],
                                                  q, orch.stable_decimals)
  /\ IF orch.idx < Len(orch.valid_pairs)
     THEN /\ orch' = Quoting([orch EXCEPT !.idx = @ + 1, !.stable_decimals = 0],
                             orch.valid_pairs[orch.idx + 1][1], decimals_cache, OrchPcs)
          /\ watcher' = [p \in Pairs |->
                           IF p \in Range(orch.valid_pairs)
                           THEN [watcher[p] EXCEPT !.pc = "RESOLVING_POOL"]
                           ELSE watcher[p]]
     ELSE /\ orch' = [orch EXCEPT !.pc = "gather", !.idx = 0, !.stable_decimals = 0,
                                  !.tasks = orch.valid_pairs]
          /\ watcher' = [p \in Pairs |->
                           IF p \in Range(orch.valid_pairs)
                           THEN [watcher[p] EXCEPT !.pc = "RESOLVING_POOL"]
                           ELSE watcher[p]]
  /\ last_eval' = CacheWritten(orch.valid_pairs[orch.idx])
  /\ UNCHANGED << testbot, event_filter, selection, config, is_monitoring, trade_lock, holder, pools, exec, zero_seen,
                  dec_vars, probe, loop_thread >>

\* one update_price_for_dex of the initial price fetch returns; after the
\* last one a subscribe_to_swap task is created for every entry of
\* valid_pairs (the list `tasks`) and the orchestrator waits in
\* asyncio.gather
InitialFetch(amounts) ==
  /\ LoopFree
  /\ orch.pc = "fetch"
  /\ \E q \in Quotes(amounts) :
       /\ price_cache' = update_price_for_dex(price_cache, orch.valid_pairs[orch.idx],
                                              q, orch.stable_decimals)
       /\ price_decimals' = update_price_decimals(price_decimals,
                                                  orch.valid_pairs[orch.idx],
                                                  q, orch.stable_decimals)
  /\ IF orch.idx < Len(orch.valid_pairs)
     THEN /\ orch' = Quoting([orch EXCEPT !.idx = @ + 1, !.stable_decimals = 0],
                             orch.valid_pairs[orch.idx + 1][1], decimals_cache, OrchPcs)
          /\ UNCHANGED watcher
     ELSE /\ orch' = [orch EXCEPT !.pc = "gather", !.idx = 0, !.stable_decimals = 0,
                                  !.tasks = orch.valid_pairs]
          /\ watcher' = [p \in Pairs |->
                           IF p \in Range(orch.valid_pairs)
                           THEN [watcher[p] EXCEPT !.pc = "RESOLVING_POOL"]
                           ELSE watcher[p]]
  /\ last_eval' = CacheWritten(orch.valid_pairs[orch.idx])
  /\ UNCHANGED << testbot, event_filter, selection, config, is_monitoring, trade_lock, holder, pools, exec, zero_seen,
                  dec_vars, probe, loop_thread >>

\* the decimals() call for the token of the pair being fetched returns
FetchTokenDecimals(outs) ==
  /\ LoopFree
  /\ orch.pc = "fetch_dec_token"
  /\ \E o \in DecimalsOutcomes(orch.valid_pairs[orch.idx][1], outs) :
       get_token_decimals(orch.valid_pairs[orch.idx][1], o)
  /\ orch' = StableLookup(orch, decimals_cache', OrchPcs)
  /\ UNCHANGED << testbot, event_filter, selection, config, is_monitoring, price_cache, trade_lock, holder, pools, watcher,
                  exec, zero_seen, price_decimals, probe, last_eval, loop_thread >>

\* the decimals() call for the stable asset returns; the router is asked
FetchStableDecimals(outs) ==
  /\ LoopFree
  /\ orch.pc = "fetch_dec_stable"
  /\ \E o \in DecimalsOutcomes(Stable, outs) :
       /\ get_token_decimals(Stable, o)
       /\ orch' = [orch EXCEPT !.pc = "fetch",
                               !.stable_decimals = DecimalsValue(Stable, o)]
  /\ UNCHANGED << testbot, event_filter, selection, config, is_monitoring, price_cache, trade_lock, holder, pools, watcher,
                  exec, zero_seen, price_decimals, probe, last_eval, loop_thread >>

\* asyncio.gather returns once every watcher task has finished
GatherReturns ==
  /\ LoopFree
  /\ orch.pc = "gather"
  /\ \A p \in Range(orch.valid_pairs) : watcher[p].pc = "STOPPED"
  /\ orch' = [orch EXCEPT !.pc = "returned"]
  /\ UNCHANGED << testbot, event_filter, selection, config, is_monitoring, price_cache, trade_lock, holder, pools, watcher,
                  exec, zero_seen,
                  dec_vars, price_decimals, probe, last_eval, loop_thread >>

\* (variant: the flag is cleared and no task is cancelled)
KeyboardInterruptFlagOnly ==
  /\ LoopFree
  /\ orch.pc = "gather"
  /\ is_monitoring' = FALSE
  /\ orch' = [orch EXCEPT !.pc = "returned"]
  /\ UNCHANGED << testbot, event_filter, selection, config, price_cache, trade_lock, holder, pools, watcher, exec, zero_seen,
                  dec_vars, price_decimals, probe, last_eval, loop_thread >>

\* except KeyboardInterrupt: the flag is cleared and every task is cancelled
KeyboardInterrupt ==
  /\ LoopFree
  /\ orch.pc = "gather"
  /\ is_monitoring' = FALSE
  /\ watcher' = [p \in Pairs |->
                   IF p \in Range(orch.valid_pairs) /\ watcher[p].pc # "STOPPED"
                   THEN [watcher[p] EXCEPT !.cancel_requested = TRUE]
                   ELSE watcher[p]]
  /\ orch' = [orch EXCEPT !.pc = "returned"]
  /\ UNCHANGED << testbot, event_filter, selection, config, price_cache, trade_lock, holder, pools, exec, zero_seen,
                  dec_vars, price_decimals, probe, last_eval, loop_thread >>


\* ---------------------------------------------------- subscribe_to_swap

\* the task returns (no pool, or a loop condition found is_monitoring false)
\* or ends with CancelledError
Stop(w, cause) ==
  [w EXCEPT !.pc = "STOPPED", !.stop_cause = cause, !.entries = 0,
            !.snap = NoSnap, !.verdict = "", !.stable_decimals = 0, !.gas = 0,
            !.gas_read = NoGasRead]

\* (variant: no except block; the exception ends the task)
PollErrorEscapes(w, e) == Stop([w EXCEPT !.error = e], "error")

\* except Exception as e: count the error and sleep min(5 * errors, 60)
PollErrorHandler(w, e) ==
  [w EXCEPT !.consecutive_errors = @ + 1,
            !.error = e,
            !.sleep_time = sleep_time_for(w.consecutive_errors + 1),
            !.entries = 0,
            !.pc = "ERROR_BACKOFF"]

\* the outcomes of self.w3.eth.filter(...): the filter, or an exception
FilterOutcomes(w, errs) ==
  IF w.consecutive_errors < MaxErrors THEN {"ok"} \cup (errs \cap {"other"})
  ELSE {"ok"}

\* the outcomes of event_filter.get_new_entries: a batch, or an exception
PollOutcomes(w, errs) ==
  IF w.consecutive_errors < MaxErrors THEN {"ok"} \cup errs ELSE {"ok"}

\* one pass of the outer `while self.is_monitoring:` up to the first poll:
\* leave when the flag is false, else create the filter and poll it
OuterLoop(w, f) ==
  IF ~is_monitoring THEN Stop(w, "flag_cleared")
  ELSE IF f = "ok"
       THEN [w EXCEPT !.pc = "ACTIVE_POLLING", !.polled = TRUE, !.error = "",
                      !.sleep_time = 0]
  ELSE PollErrorHandler([w EXCEPT !.error = "", !.sleep_time = 0], f)

\* (variant: the entries after the first one are skipped)
AfterFirstEntry(w, t) ==
  [w EXCEPT !.entries = 0, !.pc = "POLL_SLEEP", !.stable_decimals = 0]

\* the end of one `for event in entries` pass: the next entry's price
\* refresh, or asyncio.sleep(2) after the last one
AfterEntry(w, t) ==
  IF w.entries > 1
  THEN Quoting([w EXCEPT !.entries = @ - 1, !.stable_decimals = 0], t,
               decimals_cache, WatcherPcs)
  ELSE [w EXCEPT !.entries = 0, !.pc = "POLL_SLEEP", !.stable_decimals = 0]

\* (variant: a watcher also waits while a trade holds the lock)
RunningUnlessTrading(p, pc) ==
  /\ LoopFree
  /\ watcher[p].pc = pc
  /\ ~watcher[p].cancel_requested
  /\ ~trade_lock.locked

\* a watcher task can take a step of its own code: it was started, has not
\* finished, no CancelledError is pending, and the event loop thread is
\* there to run it
Running(p, pc) ==
  /\ LoopFree
  /\ watcher[p].pc = pc
  /\ ~watcher[p].cancel_requested

\* get_pair_address returns in the task: no pair ends the task, a pair
\* starts the outer loop
ResolvePoolStep(p, errs) ==
  /\ Running(p, "RESOLVING_POOL")
  /\ \E r \in PairLookups(p), f \in FilterOutcomes(watcher[p], errs) :
       /\ zero_seen' = IF r = "zero" THEN zero_seen \cup {p} ELSE zero_seen
       /\ watcher' = [watcher EXCEPT ![p] =
                        IF ~get_pair_address(r)
                        THEN Stop(@, IF r = "zero" THEN "no_pool" ELSE "lookup_failed")
                        ELSE OuterLoop(@, f)]
  /\ UNCHANGED << testbot, selection, config, is_monitoring, price_cache, trade_lock, holder, pools, orch, exec,
                  dec_vars, price_decimals, probe, last_eval, loop_thread >>

\* (the chain log is not followed)
ResolvePool(p, errs) ==
  /\ ResolvePoolStep(p, errs)
  /\ UNCHANGED event_filter

\* get_new_entries returns: the error count is reset and the entries are
\* handled one by one, or the exception handler runs
PollStep(p, errs, batches) ==
  /\ Running(p, "ACTIVE_POLLING")
  /\ \E o \in PollOutcomes(watcher[p], errs), n \in batches :
       watcher' = [watcher EXCEPT ![p] =
                     IF o = "ok"
                     THEN IF n > 0
                          THEN Quoting([@ EXCEPT !.consecutive_errors = 0,
                                                 !.entries = n],
                                       p[1], decimals_cache, WatcherPcs)
                          ELSE [@ EXCEPT !.consecutive_errors = 0,
                                         !.entries = 0,
                                         !.pc = "POLL_SLEEP"]
                     ELSE PollErrorHandler(@, o)]
  /\ UNCHANGED << testbot, selection, config, is_monitoring, price_cache, trade_lock, holder, pools, orch, exec,
                  zero_seen,
                  dec_vars, price_decimals, probe, last_eval, loop_thread >>

\* (the chain log is not followed: the poll returns any batch of batches)
Poll(p, errs, batches) ==
  /\ PollStep(p, errs, batches)
  /\ UNCHANGED event_filter

\* the decimals() call for the token returns in get_token_price
TokenDecimals(p, outs) ==
  /\ Running(p, "DEC_TOKEN")
  /\ \E o \in DecimalsOutcomes(p[1], outs) : get_token_decimals(p[1], o)
  /\ watcher' = [watcher EXCEPT ![p] = StableLookup(@, decimals_cache', WatcherPcs)]
  /\ UNCHANGED << testbot, event_filter, selection, config, is_monitoring, price_cache, trade_lock, holder, pools, orch, exec,
                  zero_seen, price_decimals, probe, last_eval, loop_thread >>

\* the decimals() call for the stable asset returns in get_token_price and
\* the router is asked
StableDecimals(p, outs) ==
  /\ Running(p, "DEC_STABLE")
  /\ \E o \in DecimalsOutcomes(Stable, outs) :
       /\ get_token_decimals(Stable, o)
       /\ watcher' = [watcher EXCEPT ![p] =
                        [@ EXCEPT !.pc = "REFRESH",
                                  !.stable_decimals = DecimalsValue(Stable, o)]]
  /\ UNCHANGED << testbot, event_filter, selection, config, is_monitoring, price_cache, trade_lock, holder, pools, orch, exec,
                  zero_seen, price_decimals, probe, last_eval, loop_thread >>

\* check_and_execute_opportunity from its start to its first suspending
\* await, on the cache as it is after the refresh: it returns (next entry),
\* or asks for the stable decimals, or (decimals cached) for the gas price
Evaluate(w, t, cache, pd) ==
  LET v == EvalVerdict(cache, pd, t)
      e == [w EXCEPT !.verdict = v, !.snap = EvalSnap(cache, pd, t),
                     !.stable_decimals = 0, !.gas = 0,
                     !.gas_read = NoGasRead]
  IN IF v # "profit_check" THEN AfterEntry(e, t)
     ELSE IF decimals_cache[Stable] = NotCached THEN [e EXCEPT !.pc = "EVAL_DEC"]
     ELSE [e EXCEPT !.pc = "EVAL_GAS", !.stable_decimals = decimals_cache[Stable]]

\* update_price_for_dex returns for the current entry and
\* check_and_execute_opportunity runs up to its first await (or returns)
Refresh(p, amounts) ==
  /\ Running(p, "REFRESH")
  /\ \E q \in Quotes(amounts) :
       /\ price_cache' = update_price_for_dex(price_cache, p, q,
                                              watcher[p].stable_decimals)
       /\ price_decimals' = update_price_decimals(price_decimals, p, q,
                                                  watcher[p].stable_decimals)
  /\ watcher' = [watcher EXCEPT ![p] = Evaluate(@, p[1], price_cache', price_decimals')]
  /\ last_eval' = CacheWritten(p)
  /\ UNCHANGED << testbot, event_filter, selection, config, is_monitoring, trade_lock, holder, pools, orch, exec, zero_seen,
                  dec_vars, probe, loop_thread >>

\* the decimals() call for the stable asset returns in
\* check_and_execute_opportunity and the gas price is asked
EvalDecimals(p, outs) ==
  /\ Running(p, "EVAL_DEC")
  /\ \E o \in DecimalsOutcomes(Stable, outs) :
       /\ get_token_decimals(Stable, o)
       /\ watcher' = [watcher EXCEPT ![p] =
                        [@ EXCEPT !.pc = "EVAL_GAS",
                                  !.stable_decimals = DecimalsValue(Stable, o)]]
  /\ UNCHANGED << testbot, event_filter, selection, config, is_monitoring, price_cache, trade_lock, holder, pools, orch, exec,
                  zero_seen, price_decimals, probe, last_eval, loop_thread >>

\* gross_profit_usd = flash_loan_amount_usd * (price_diff_percent / 100),
\* as a numerator over min_price
gross_profit_usd(s) == max_flash_loan_amount * (s.max_price - s.min_price)

\* (variant: the gas cost is recorded but not subtracted)
OpportunityNetIsGross(t, s, gas, d) ==
  [token |-> t, buy_dex |-> s.min_dex, sell_dex |-> s.max_dex,
   buy_price |-> s.min_price, sell_price |-> s.max_price, gas_cost |-> gas,
   amount |-> [usd |-> max_flash_loan_amount, exp |-> d],
   expected_profit |-> gross_profit_usd(s), net_profit |-> gross_profit_usd(s)]

\* the opportunity built from the snapshot and the gas estimate
Opportunity(t, s, gas, d) ==
  [token |-> t, buy_dex |-> s.min_dex, sell_dex |-> s.max_dex,
   buy_price |-> s.min_price, sell_price |-> s.max_price, gas_cost |-> gas,
   amount |-> [usd |-> max_flash_loan_amount, exp |-> d],
   expected_profit |-> gross_profit_usd(s),
   net_profit |-> gross_profit_usd(s) - gas * s.min_price]

FreeSlots == {e \in ExecIds : exec[e].pc = "none"}

\* (variant: a task is created in every free slot)
CreateTaskInEverySlot(ex, opp) ==
  [e \in ExecIds |->
     IF e \in FreeSlots THEN [ExecInit EXCEPT !.pc = "spawned", !.opp = opp] ELSE ex[e]]

\* asyncio.create_task(self.execute_arbitrage(opportunity))
create_task(ex, opp) ==
  LET e == CHOOSE e \in FreeSlots : \A f \in FreeSlots : e <= f
  IN [ex EXCEPT ![e] = [ExecInit EXCEPT !.pc = "spawned", !.opp = opp]]

\* w3.eth.get_gas_price returns its value to estimate_gas_cost, which
\* calls requests.get on the event loop thread: the thread is inside the
\* request until the feed answers or the request fails
FeedRequest(p) ==
  /\ Running(p, "EVAL_GAS")
  /\ \E r \in GasPriceReads :
       /\ r.ok
       /\ loop_thread' = [caller |-> p, gas_price |-> r]
  /\ UNCHANGED << testbot, event_filter, selection, config, is_monitoring, price_cache, trade_lock, holder, pools, orch,
                  watcher, exec, zero_seen, dec_vars, price_decimals, probe, last_eval >>

\* estimate_gas_cost returns, when the feed has answered (or the request
\* has failed) or at once when the gas price read raised: the net profit
\* decides whether an execution task is created; then the next entry
EvalGas(p) ==
  /\ watcher[p].pc = "EVAL_GAS"
  /\ ~watcher[p].cancel_requested
  /\ \E g \in GasOutcomes :
       LET s == watcher[p].snap
           gas == estimate_gas_cost(g)
       IN /\ IF loop_thread.caller = p THEN g.gas_price = loop_thread.gas_price
             ELSE LoopFree /\ ~g.gas_price.ok
          /\ IF NetProfitable(s.min_price, s.max_price, gas)
             THEN /\ FreeSlots # {}
                  /\ exec' = create_task(exec, Opportunity(p[1], s, gas,
                                                           watcher[p].stable_decimals))
                  /\ watcher' = [watcher EXCEPT ![p] =
                                   AfterEntry([@ EXCEPT !.verdict = "opportunity",
                                                        !.gas = gas,
                                                        !.gas_read = g], p[1])]
             ELSE /\ exec' = exec
                  /\ watcher' = [watcher EXCEPT ![p] =
                                   AfterEntry([@ EXCEPT !.verdict = "unprofitable",
                                                        !.gas = gas,
                                                        !.gas_read = g], p[1])]
          /\ last_eval' = IF p \in last_eval.stale
                          THEN [last_eval EXCEPT !.stale = @ \ {p}]
                          ELSE [last_eval EXCEPT !.valid = TRUE, !.snap = s,
                                                 !.gas = gas]
  /\ loop_thread' = NoCall
  /\ UNCHANGED << testbot, event_filter, selection, config, is_monitoring, price_cache, trade_lock, holder, pools, orch,
                  zero_seen,
                  dec_vars, price_decimals, probe >>

\* asyncio.sleep(2) ends: the inner loop polls again, or both loops end
PollSleepWake(p) ==
  /\ Running(p, "POLL_SLEEP")
  /\ watcher' = [watcher EXCEPT ![p] =
                   IF is_monitoring
                   THEN [@ EXCEPT !.pc = "ACTIVE_POLLING", !.snap = NoSnap,
                                  !.verdict = "", !.gas = 0,
                                  !.gas_read = NoGasRead]
                   ELSE Stop(@, "flag_cleared")]
  /\ UNCHANGED << testbot, event_filter, selection, config, is_monitoring, price_cache, trade_lock, holder, pools, orch, exec,
                  zero_seen,
                  dec_vars, price_decimals, probe, last_eval, loop_thread >>

\* (variant: after a second consecutive error the task sleeps on)
BackoffWakeGivesUp(p, errs) ==
  /\ Running(p, "ERROR_BACKOFF")
  /\ watcher[p].consecutive_errors < 2
  /\ \E f \in FilterOutcomes(watcher[p], errs) :
       watcher' = [watcher EXCEPT ![p] = OuterLoop(@, f)]
  /\ UNCHANGED << testbot, event_filter, selection, config, is_monitoring, price_cache, trade_lock,
                  holder, pools, orch, exec, zero_seen, dec_vars, price_decimals, probe,
                  last_eval, loop_thread >>

\* asyncio.sleep(sleep_time) ends: the outer loop runs again
BackoffWakeStep(p, errs) ==
  /\ Running(p, "ERROR_BACKOFF")
  /\ \E f \in FilterOutcomes(watcher[p], errs) :
       watcher' = [watcher EXCEPT ![p] = OuterLoop(@, f)]
  /\ UNCHANGED << testbot, selection, config, is_monitoring, price_cache, trade_lock, holder, pools, orch, exec,
                  zero_seen,
                  dec_vars, price_decimals, probe, last_eval, loop_thread >>

\* (the chain log is not followed)
BackoffWake(p, errs) ==
  /\ BackoffWakeStep(p, errs)
  /\ UNCHANGED event_filter

\* ---- subscribe_to_swap with the chain log followed

\* (variant: the new filter starts where the last poll ended)
FilterFromLastPoll(f) ==
  [live |-> TRUE, pending |-> Min(f.lost, MaxBatch), lost |-> 0]

\* self.w3.eth.filter({'address': pair_address, 'fromBlock': 'latest'}):
\* a filter that returns the entries appended from now on
new_filter(f) == [f EXCEPT !.live = TRUE, !.pending = 0]

\* event_filter.get_new_entries returned the pending entries
get_new_entries(f) == [f EXCEPT !.pending = 0]

\* the except block is entered: the filter of this pass is not used again,
\* what it had not returned is never returned
drop_filter(f) ==
  [live |-> FALSE, pending |-> 0, lost |-> Min(f.lost + f.pending, MaxLost)]

\* what the step of watcher p just taken has done to its filter
FilterAfter(p, before) ==
  IF watcher'[p].pc = "ERROR_BACKOFF" THEN drop_filter(event_filter[p])
  ELSE IF before \in {"RESOLVING_POOL", "ERROR_BACKOFF"} /\ watcher'[p].pc = "ACTIVE_POLLING"
       THEN new_filter(event_filter[p])
  ELSE IF before = "ACTIVE_POLLING" THEN get_new_entries(event_filter[p])
  ELSE event_filter[p]

ResolvePoolFilter(p, errs) ==
  /\ ResolvePoolStep(p, errs)
  /\ event_filter' = [event_filter EXCEPT ![p] = FilterAfter(p, "RESOLVING_POOL")]

\* get_new_entries returns what was appended since the filter was created
\* or last polled
PollFilter(p, errs) ==
  /\ PollStep(p, errs, {event_filter[p].pending})
  /\ event_filter' = [event_filter EXCEPT ![p] = FilterAfter(p, "ACTIVE_POLLING")]

BackoffWakeFilter(p, errs) ==
  /\ BackoffWakeStep(p, errs)
  /\ event_filter' = [event_filter EXCEPT ![p] = FilterAfter(p, "ERROR_BACKOFF")]

\* an exception leaves update_price_for_dex or check_and_execute_opportunity
\* while an entry of the batch is handled (their own handlers cover the
\* calls to the node; anything else raised in the body of the for loop
\* reaches the except block of subscribe_to_swap)
EntryError(p) ==
  /\ Running(p, "REFRESH")
  /\ watcher[p].consecutive_errors < MaxErrors
  /\ watcher' = [watcher EXCEPT ![p] = PollErrorHandler(@, "other")]
  /\ event_filter' = [event_filter EXCEPT ![p] = drop_filter(@)]
  /\ UNCHANGED << testbot, is_monitoring, price_cache, trade_lock, holder, pools, orch, exec,
                  zero_seen, dec_vars, price_decimals, probe, last_eval, loop_thread,
                  config, selection >>

\* a swap on the pool of pair p appends an entry to the chain log
SwapAppended(p) ==
  /\ p \in pools
  /\ watcher[p].pc \notin {"NOT_STARTED", "RESOLVING_POOL", "STOPPED"}
  /\ IF event_filter[p].live
     THEN /\ event_filter[p].pending < MaxBatch
          /\ event_filter' = [event_filter EXCEPT ![p].pending = @ + 1]
     ELSE /\ event_filter[p].lost < MaxLost
          /\ event_filter' = [event_filter EXCEPT ![p].lost = @ + 1]
  /\ UNCHANGED << testbot, is_monitoring, price_cache, trade_lock, holder, pools, orch, watcher,
                  exec, zero_seen, dec_vars, price_decimals, probe, last_eval,
                  loop_thread, config, selection >>

\* t.cancel(): CancelledError is raised at the await the task is suspended
\* in; `except Exception` does not catch it and the task ends
WatcherCancelled(p) ==
  /\ LoopFree
  /\ watcher[p].cancel_requested
  /\ watcher[p].pc \notin {"NOT_STARTED", "STOPPED"}
  /\ watcher' = [watcher EXCEPT ![p] = Stop(@, "cancelled")]
  /\ UNCHANGED << testbot, event_filter, selection, config, is_monitoring, price_cache, trade_lock, holder, pools, orch, exec,
                  zero_seen,
                  dec_vars, price_decimals, probe, last_eval, loop_thread >>


\* ---------------------------------------------------- execute_arbitrage

\* the awaits of the try block, in order; "cooldown" is asyncio.sleep(60)
CriticalPcs == {"nonce", "gas_price", "build", "send", "receipt", "cooldown"}

\* (variant: the lock is taken without looking at its state)
LockFreeUnchecked(lock) == TRUE

\* trade_lock.acquire() takes the lock at once when it is free and nobody
\* is queued for it
LockFree(lock) == ~lock.locked /\ lock.waiters = << >>

\* opportunity.net_profit as the fraction num / min_price
NetProfitNum(opp) ==
  max_flash_loan_amount * (opp.sell_price - opp.buy_price) - opp.gas_cost * opp.buy_price

\* int(opportunity.net_profit * (10**6) * 0.9), in exact arithmetic: the
\* whole units and the remainder of net_profit are scaled separately to
\* stay within the integers of the model
min_profit(opp) ==
  (NetProfitNum(opp) \div opp.buy_price) * 9 * 10 ^ (UsdcDecimals - 1)
    + ((NetProfitNum(opp) % opp.buy_price) * 9 * 10 ^ (UsdcDecimals - 1)) \div opp.buy_price

\* (variant: the sell-side router comes before the buy-side one)
ParamsSellRouterFirst(opp) ==
  << opp.token, Stable, opp.amount, router_address[opp.sell_dex],
     router_address[opp.buy_dex], account_address, min_profit(opp) >>

\* (variant: the prices are read again from the price cache when the
\* parameters are built)
ParamsFromCache(opp) ==
  LET now == [opp EXCEPT !.buy_price = price_cache[<< opp.token, opp.buy_dex >>],
                         !.sell_price = price_cache[<< opp.token, opp.sell_dex >>]]
  IN << opp.token, Stable, opp.amount, router_address[opp.buy_dex],
        router_address[opp.sell_dex], account_address, min_profit(now) >>

\* params_tuple, built when the lock has been taken
params_tuple(opp) ==
  << opp.token, Stable, opp.amount, router_address[opp.buy_dex],
     router_address[opp.sell_dex], account_address, min_profit(opp) >>

\* finally: self.trade_lock.release(), after which the task is finished
Finally(e) ==
  /\ trade_lock' = [trade_lock EXCEPT !.locked = FALSE]
  /\ holder' = IF holder = e THEN 0 ELSE holder
  /\ exec' = [exec EXCEPT ![e] = ExecDone]

\* the task runs for the first time: `await self.trade_lock.acquire()`
\* either takes the lock and goes on to the nonce request, or queues
ExecStart(e) ==
  /\ LoopFree
  /\ exec[e].pc = "spawned"
  /\ IF LockFree(trade_lock)
     THEN /\ trade_lock' = [trade_lock EXCEPT !.locked = TRUE]
          /\ holder' = e
          /\ exec' = [exec EXCEPT ![e] = [@ EXCEPT !.pc = "nonce",
                                                  !.params = params_tuple(exec[e].opp)]]
     ELSE /\ trade_lock' = [trade_lock EXCEPT !.waiters = Append(@, e)]
          /\ holder' = holder
          /\ exec' = [exec EXCEPT ![e] = [@ EXCEPT !.pc = "lock_wait",
                                                  !.contended = TRUE]]
  /\ UNCHANGED << testbot, event_filter, selection, config, is_monitoring, price_cache, pools, orch, watcher, zero_seen,
                  dec_vars, price_decimals, probe, last_eval, loop_thread >>

\* a queued acquire() is woken by release() and takes the lock
LockGranted(e) ==
  /\ LoopFree
  /\ exec[e].pc = "lock_wait"
  /\ ~trade_lock.locked
  /\ trade_lock.waiters # << >>
  /\ Head(trade_lock.waiters) = e
  /\ trade_lock' = [locked |-> TRUE, waiters |-> Tail(trade_lock.waiters)]
  /\ holder' = e
  /\ exec' = [exec EXCEPT ![e] = [@ EXCEPT !.pc = "nonce",
                                          !.params = params_tuple(exec[e].opp)]]
  /\ UNCHANGED << testbot, event_filter, selection, config, is_monitoring, price_cache, pools, orch, watcher, zero_seen,
                  dec_vars, price_decimals, probe, last_eval, loop_thread >>

\* the await that follows each await of the submission sequence
NextPc(pc) ==
  CASE pc = "nonce" -> "gas_price"
    [] pc = "gas_price" -> "build"
    [] pc = "build" -> "send"
    [] pc = "send" -> "receipt"

\* (variant: release() is the last statement of the try block, so an
\* exception of the submission sequence leaves the lock locked)
ExecRpcNoFinally(e) ==
  /\ LoopFree
  /\ exec[e].pc \in {"nonce", "gas_price", "build", "send"}
  /\ \E ok \in BOOLEAN :
       IF ok
       THEN /\ exec' = [exec EXCEPT ![e] =
                          [@ EXCEPT !.pc = NextPc(exec[e].pc),
                                    !.submitted = (exec[e].pc = "send")]]
            /\ UNCHANGED << testbot, event_filter, selection, config, trade_lock, holder >>
       ELSE /\ exec' = [exec EXCEPT ![e] = ExecDone]
            /\ UNCHANGED << testbot, event_filter, selection, config, trade_lock, holder >>
  /\ UNCHANGED << testbot, event_filter, selection, config, is_monitoring, price_cache, pools, orch, watcher, zero_seen,
                  dec_vars, price_decimals, probe, last_eval, loop_thread >>

\* get_transaction_count, get_gas_price, build_transaction (followed by
\* sign_transaction) or send_raw_transaction returns or raises; an
\* exception is logged by `except Exception` and the finally block runs
ExecRpc(e) ==
  /\ LoopFree
  /\ exec[e].pc \in {"nonce", "gas_price", "build", "send"}
  /\ \E ok \in BOOLEAN :
       IF ok
       THEN /\ exec' = [exec EXCEPT ![e] =
                          [@ EXCEPT !.pc = NextPc(exec[e].pc),
                                    !.submitted = (exec[e].pc = "send")]]
            /\ UNCHANGED << testbot, event_filter, selection, config, trade_lock, holder >>
       ELSE Finally(e)
  /\ UNCHANGED << testbot, event_filter, selection, config, is_monitoring, price_cache, pools, orch, watcher, zero_seen,
                  dec_vars, price_decimals, probe, last_eval, loop_thread >>

\* (variant: a receipt timeout skips the release)
ReceiptTimeoutKeepsLock(e) ==
  /\ LoopFree
  /\ exec[e].pc = "receipt"
  /\ \E r \in {"status_1", "status_0", "timeout"} :
       IF r = "timeout"
       THEN /\ exec' = [exec EXCEPT ![e] = ExecDone]
            /\ UNCHANGED << testbot, event_filter, selection, config, trade_lock, holder >>
       ELSE /\ exec' = [exec EXCEPT ![e] =
                          [@ EXCEPT !.pc = "cooldown",
                                    !.status = IF r = "status_1" THEN 1 ELSE 0]]
            /\ UNCHANGED << testbot, event_filter, selection, config, trade_lock, holder >>
  /\ UNCHANGED << testbot, event_filter, selection, config, is_monitoring, price_cache, pools, orch, watcher, zero_seen,
                  dec_vars, price_decimals, probe, last_eval, loop_thread >>

\* (variant: a reverted transaction stops the monitoring)
ReceiptRevertFatal(e) ==
  /\ LoopFree
  /\ exec[e].pc = "receipt"
  /\ \E r \in {"status_1", "status_0", "timeout"} :
       /\ IF r = "timeout" THEN Finally(e)
          ELSE /\ exec' = [exec EXCEPT ![e] =
                             [@ EXCEPT !.pc = "cooldown",
                                       !.status = IF r = "status_1" THEN 1 ELSE 0]]
               /\ UNCHANGED << testbot, event_filter, selection, config, trade_lock, holder >>
       /\ is_monitoring' = (is_monitoring /\ r # "status_0")
  /\ UNCHANGED << testbot, event_filter, selection, config, price_cache, pools, orch, watcher, zero_seen,
                  dec_vars, price_decimals, probe, last_eval, loop_thread >>

\* wait_for_transaction_receipt returns a receipt (status 1 or not) and the
\* cooldown sleep starts, or raises on timeout (TimeExhausted)
Receipt(e) ==
  /\ LoopFree
  /\ exec[e].pc = "receipt"
  /\ \E r \in {"status_1", "status_0", "timeout"} :
       IF r = "timeout" THEN Finally(e)
       ELSE /\ exec' = [exec EXCEPT ![e] =
                          [@ EXCEPT !.pc = "cooldown",
                                    !.status = IF r = "status_1" THEN 1 ELSE 0]]
            /\ UNCHANGED << testbot, event_filter, selection, config, trade_lock, holder >>
  /\ UNCHANGED << testbot, event_filter, selection, config, is_monitoring, price_cache, pools, orch, watcher, zero_seen,
                  dec_vars, price_decimals, probe, last_eval, loop_thread >>

\* asyncio.sleep(60) ends and the finally block runs
CooldownDone(e) ==
  /\ LoopFree
  /\ exec[e].pc = "cooldown"
  /\ Finally(e)
  /\ UNCHANGED << testbot, event_filter, selection, config, is_monitoring, price_cache, pools, orch, watcher, zero_seen,
                  dec_vars, price_decimals, probe, last_eval, loop_thread >>

\* the task is cancelled when the event loop shuts down: CancelledError at
\* the current await; inside the try block `except Exception` does not
\* catch it and the finally block runs
ExecCancelled(e) ==
  /\ LoopFree
  /\ orch.pc = "returned"
  /\ exec[e].pc \notin {"none", "done"}
  /\ IF exec[e].pc \in CriticalPcs
     THEN Finally(e)
     ELSE /\ exec' = [exec EXCEPT ![e] = ExecDone]
          /\ trade_lock' = [trade_lock EXCEPT !.waiters =
                              SelectSeq(@, LAMBDA x : x # e)]
          /\ holder' = holder
  /\ UNCHANGED << testbot, event_filter, selection, config, is_monitoring, price_cache, pools, orch, watcher, zero_seen,
                  dec_vars, price_decimals, probe, last_eval, loop_thread >>

\* ------------------------------------------------------ specifications

ExecStep(e) ==
  \/ ExecStart(e)
  \/ LockGranted(e)
  \/ ExecRpc(e)
  \/ Receipt(e)
  \/ CooldownDone(e)

\* the orchestrator, the chain and the steps every watcher takes, for the
\* exceptions, batch sizes and quotes of one environment
Monitor(errs, batches, amounts) ==
  \/ \E p \in Pairs : CreatePool(p)
  \/ StartMonitoring({selected_dexes})
  \/ VerifyPool
  \/ FetchTokenDecimals(DecimalsOk)
  \/ FetchStableDecimals(DecimalsOk)
  \/ InitialFetch(amounts)
  \/ GatherReturns
  \/ KeyboardInterrupt
  \/ \E p \in Pairs : ResolvePool(p, errs)
  \/ \E p \in Pairs : Poll(p, errs, batches)
  \/ \E p \in Pairs : Refresh(p, amounts)
  \/ \E p \in Pairs : PollSleepWake(p)
  \/ \E p \in Pairs : WatcherCancelled(p)

\* Spec: a market with a 2 % spread whose node answers every watcher call;
\* opportunities are found and executed concurrently
Next ==
  \/ Monitor(NoErrors, SingleEntry, QuoteAmounts)
  \/ \E p \in Pairs : FeedRequest(p)
  \/ \E p \in Pairs : EvalGas(p)
  \/ \E e \in ExecIds : ExecStep(e)
  \/ \E e \in ExecIds : ExecCancelled(e)

Spec == Init /\ [][Next]_vars

\* SpecLive: Spec, where every call an execution task awaits returns or
\* raises and every sleep ends, where the feed request the loop thread is
\* inside ends (timeout=5), and where the event loop, which runs the ready
\* tasks in turn, resumes a task that is ready whenever the thread is free
SpecLive ==
  /\ Spec
  /\ \A e \in ExecIds : SF_vars(ExecStep(e))
  /\ \A p \in Pairs : WF_vars(EvalGas(p))

\* SpecWatcher: a quiet market (one price everywhere, so no opportunity)
\* on a node whose filter and poll calls may raise
NextWatcher ==
  \/ Monitor(PollErrors, Batches, QuietAmounts)
  \/ \E p \in Pairs : BackoffWake(p, PollErrors)

SpecWatcher == Init /\ [][NextWatcher]_vars

\* SpecWatcherLive: SpecWatcher, where the event loop resumes every
\* cancelled task (asyncio.run runs the loop until the cancelled tasks end)
SpecWatcherLive == SpecWatcher /\ \A p \in Pairs : WF_vars(WatcherCancelled(p))

\* SpecBackoffLive: SpecWatcher, where every asyncio.sleep(sleep_time) of
\* the error handler ends (sleep_time is at most 60) and the event loop
\* resumes the task; the node stops failing a watcher's calls after
\* MaxErrors consecutive failures at the latest
SpecBackoffLive == SpecWatcher /\ \A p \in Pairs : WF_vars(BackoffWake(p, PollErrors))

\* SpecEval: a market quoting the prices at the edges of the spread band;
\* execute_arbitrage reads and writes nothing a watcher reads, so the tasks
\* created here are left unscheduled
NextEval ==
  \/ Monitor(NoErrors, SingleEntry, BandAmounts)
  \/ \E p \in Pairs : FeedRequest(p)
  \/ \E p \in Pairs : EvalGas(p)

SpecEval == Init /\ [][NextEval]_vars

\* SpecDecimals: the market of Spec on a node whose decimals() calls may
\* fail, in the initial fetch, in a watcher's refresh and in the evaluation
NextDecimals ==
  \/ Monitor(NoErrors, SingleEntry, QuoteAmounts)
  \/ FetchTokenDecimals(DecimalsAny)
  \/ FetchStableDecimals(DecimalsAny)
  \/ \E p \in Pairs : TokenDecimals(p, DecimalsAny)
  \/ \E p \in Pairs : StableDecimals(p, DecimalsAny)
  \/ \E p \in Pairs : EvalDecimals(p, DecimalsAny)
  \/ \E p \in Pairs : FeedRequest(p)
  \/ \E p \in Pairs : EvalGas(p)

SpecDecimals == Init /\ [][NextDecimals]_vars

\* SpecQuote: a router quoting prices around the sanity bound, to the
\* monitor and to get_token_price called on its own with either decimal count
NextQuote ==
  \/ Monitor(NoErrors, SingleEntry, SanityAmounts)
  \/ QuoteCall(SanityAmounts, {UsdcDecimals, DefaultDecimals})

SpecQuote == Init /\ [][NextQuote]_vars

\* SpecOrder: the market of Spec with polls that return up to MaxBatch
\* entries; the tasks created are left unscheduled
NextOrder ==
  \/ Monitor(NoErrors, Batches, QuoteAmounts)
  \/ \E p \in Pairs : FeedRequest(p)
  \/ \E p \in Pairs : EvalGas(p)

SpecOrder == Init /\ [][NextOrder]_vars

\* SpecStartup: monitor_opportunities from its start to asyncio.gather, for
\* every selection select_dexes accepts
NextStartup ==
  \/ \E p \in Pairs : CreatePool(p)
  \/ StartMonitoring(DexSelections)
  \/ VerifyPool
  \/ FetchTokenDecimals(DecimalsOk)
  \/ FetchStableDecimals(DecimalsOk)
  \/ InitialFetch(QuoteAmounts)

SpecStartup == Init /\ [][NextStartup]_vars


\* SpecCache: the market of Spec with a router that also quotes 1e12; the
\* tasks created are left unscheduled
NextCache ==
  \/ Monitor(NoErrors, SingleEntry, CacheAmounts)
  \/ \E p \in Pairs : FeedRequest(p)
  \/ \E p \in Pairs : EvalGas(p)

SpecCache == Init /\ [][NextCache]_vars

\* SpecSelect: the minimum/maximum selection on its own, for every order
\* of three DEXes and every row of cached prices
NextSelect == SelectCall

SpecSelect == Init /\ [][NextSelect]_vars

\* SpecBatch: a quiet market whose chain log is followed entry by entry,
\* on a node that answers every call; the handling of an entry may raise
NextBatch ==
  \/ \E p \in Pairs : CreatePool(p)
  \/ StartMonitoring({selected_dexes})
  \/ VerifyPool
  \/ FetchTokenDecimals(DecimalsOk)
  \/ FetchStableDecimals(DecimalsOk)
  \/ InitialFetch(QuietAmounts)
  \/ GatherReturns
  \/ KeyboardInterrupt
  \/ \E p \in Pairs : ResolvePoolFilter(p, NoErrors)
  \/ \E p \in Pairs : PollFilter(p, NoErrors)
  \/ \E p \in Pairs : Refresh(p, QuietAmounts)
  \/ \E p \in Pairs : EntryError(p)
  \/ \E p \in Pairs : BackoffWakeFilter(p, NoErrors)
  \/ \E p \in Pairs : PollSleepWake(p)
  \/ \E p \in Pairs : WatcherCancelled(p)
  \/ \E p \in Pairs : SwapAppended(p)

SpecBatch == Init /\ [][NextBatch]_vars

\* SpecMain: Spec from the start of main, for every configuration
NextMain ==
  \/ LoadConfig
  \/ Construct
  \/ Decline
  \/ Next

SpecMain == InitMain /\ [][NextMain]_vars

\* ------------------------------------------- testbot.py: the event poller
\*
\* testbot.py is a second monitor program of the repository.  Its
\* ArbitrageMonitor polls one log filter per pool from a coroutine that runs
\* on an event loop in a background thread; everything a polling cycle
\* does (polling every filter, processing every event, checking for an
\* opportunity, executing it and waiting for the receipt) is synchronous
\* code between two awaits of asyncio.sleep, so a cycle is one step.
\* One token pair is monitored; a pool key (token0, token1, fee, dex) is
\* written << fee, dex >>.  Token info is present for every pool.

MaxCycles == 2

\* the pool keys in the order _initialize_pools inserts them into self.pools
PoolOrder ==
  << << 500, "uniswap" >>, << 500, "sushiswap" >>, << 3000, "uniswap" >> >>

\* what _initialize_pools found: both pools of the 0.05% tier, with or
\* without a uniswap pool of the 0.3% tier whose sushiswap pool is missing
PoolSets ==
  { { << 500, "uniswap" >>, << 500, "sushiswap" >> },
    { << 500, "uniswap" >>, << 500, "sushiswap" >>, << 3000, "uniswap" >> } }

\* GAS_PRICE_GWEI_LIMIT: the default of 10 gwei, and 30 gwei
GasLimits == {10, 30}

\* MIN_PROFIT_THRESHOLD (default 0.1), times 100 as the code compares it
tb_min_profit_threshold_x100 == 10
\* MIN_PROFIT_USD (default 5.0)
min_profit_usd == 5
\* BORROW_AMOUNT (default 1000)
borrow_amount == 1000

\* the pool keys of s that are in the set keep, in the order of s
RECURSIVE Restrict(_, _)
Restrict(s, keep) ==
  IF s = << >> THEN << >>
  ELSE IF Head(s) \in keep THEN << Head(s) >> \o Restrict(Tail(s), keep)
       ELSE Restrict(Tail(s), keep)

\* The chain as one polling cycle or one execution reads it: the pool
\* prices (0 = the slot0 call failed, get_pool_price returns None), the gas
\* price in tenths of a gwei, the account balance as units * 10^13 wei minus
\* `below` wei, the direction in which the conversion of the balance to a
\* float rounds, and which RPC call of the execution raises.
Market(uni, sushi, gas, balance, round_up, rpc) ==
  [uni |-> uni, sushi |-> sushi, gas |-> gas, balance |-> balance,
   round_up |-> round_up, rpc |-> rpc]

\* estimated_gas_cost_eth = from_wei(current_gas_price_wei * 600000,
\* 'ether'), in units of 10^13 wei for a gas price in tenths of a gwei
\* (10^8 wei): gas * 10^8 * 600000 = gas * 6 * 10^13
estimated_gas_cost(gas) == 6 * gas

\* from this many units of 10^13 wei on (2^-6 ETH = 0.015625 ETH) two
\* neighbouring doubles are more than 2 wei apart, so that float() cannot
\* tell a balance from the amount 1 wei above it
FloatCoarseFrom == 1563

\* `eth_balance < estimated_gas_cost_eth`: check_eth_balance returns
\* float(balance_eth), a double, which is compared with the exact Decimal
\* cost.  A balance that differs from the cost by whole units compares as
\* the exact values do.  A balance 1 wei below the cost becomes the double
\* nearest to it: below 0.015625 ETH that double is still below the cost,
\* from there on it is below the cost only if the conversion rounds down.
\* A balance equal to the cost compares below if its double was rounded
\* down.
balance_below_cost(balance, cost, round_up) ==
  IF balance.units # cost THEN balance.units < cost
  ELSE IF balance.below > 0 /\ cost < FloatCoarseFrom THEN TRUE
  ELSE ~round_up

\* _execute_arbitrage(token0, token1, fee, ...): the pre-checks, then
\* nonce, gas estimate, signature, submission and receipt; any exception is
\* caught and logged.  The result names the point at which the call
\* returned; signed and sent tell whether sign_transaction was called and
\* whether send_raw_transaction returned a hash.
execute_arbitrage(tb, fee, m) ==
  LET done(result, signed, sent) ==
        [tb EXCEPT !.invoked = @ + 1,
                   !.signed = @ + (IF signed THEN 1 ELSE 0),
                   !.sent = @ + (IF sent THEN 1 ELSE 0),
                   !.last = [fee |-> fee, gas |-> m.gas, balance |-> m.balance,
                             result |-> result, signed |-> signed, sent |-> sent]]
  IN  IF m.rpc = "gas_price_raises" THEN done("error", FALSE, FALSE)
      ELSE IF m.gas > 10 * tb.gas_price_gwei_limit
        THEN done("gas_price_exceeds_limit", FALSE, FALSE)
      ELSE IF balance_below_cost(m.balance, estimated_gas_cost(m.gas), m.round_up)
        THEN done("insufficient_eth", FALSE, FALSE)
      ELSE IF << fee, "uniswap" >> \notin tb.pools \/ << fee, "sushiswap" >> \notin tb.pools
        THEN done("missing_pool", FALSE, FALSE)
      ELSE IF m.rpc = "nonce_raises" THEN done("error", FALSE, FALSE)
      ELSE IF m.rpc = "send_raises" THEN done("error", TRUE, FALSE)
      ELSE done("sent", TRUE, TRUE)

\* (variant: execution is withheld in monitor-only mode only)
GateMonitorOnly(tb) == ~tb.monitor_only

\* `if not self.monitor_only and not self.simulate`
execution_gate(tb) == ~tb.monitor_only /\ ~tb.simulate

\* _check_arbitrage_opportunity(token0, token1, fee): both pools known,
\* both prices read and reasonable, the spread at least the threshold (in
\* percent of the mean price) and the estimated profit at least
\* min_profit_usd (the stable token is USDC); then the opportunity is
\* logged and the mode gate decides whether it is executed.
\*   100 * diff / ((uni + sushi) / 2) >= threshold * 100
\*   borrow_amount * diff / ((uni + sushi) / 2) >= min_profit_usd
check_arbitrage_opportunity(tb, fee, m) ==
  LET diff == IF m.uni > m.sushi THEN m.uni - m.sushi ELSE m.sushi - m.uni
  IN  IF << fee, "uniswap" >> \notin tb.pools \/ << fee, "sushiswap" >> \notin tb.pools
        THEN tb
      ELSE IF m.uni = 0 \/ m.sushi = 0 THEN tb
      ELSE IF 200 * diff < tb_min_profit_threshold_x100 * (m.uni + m.sushi) THEN tb
      ELSE IF 2 * borrow_amount * diff < min_profit_usd * (m.uni + m.sushi) THEN tb
      ELSE LET t == [tb EXCEPT !.detected = @ + 1]
           IN  IF execution_gate(t) THEN execute_arbitrage(t, fee, m) ELSE t

\* _process_swap_event(pool_key, event): the event is decoded and logged and
\* the pair is checked; an event that cannot be decoded raises inside the
\* try and is logged by the function's own except clause
process_swap_event(tb, key, entry, m) ==
  LET t == [tb EXCEPT !.processed = Append(@, key)]
  IN  IF entry = "bad_event" THEN t
      ELSE check_arbitrage_opportunity(t, key[1], m)

\* (variant: the error of one pool's poll leaves the for loop)
PollErrorLeavesCycle(tb, key) ==
  [tb EXCEPT !.raised = @ \cup {key}, !.escaped = TRUE]

\* `except Exception as poll_error` inside the for loop: logged, the loop
\* goes on with the next pool
poll_error_handler(tb, key) == [tb EXCEPT !.raised = @ \cup {key}]

\* what one pool's filter yields in a cycle: no entry, one Swap entry, one
\* entry that cannot be decoded, or get_new_entries raises
EntryOutcomes == {"none", "event", "bad_event", "raises"}

\* the for loop over self.swap_filters.items(), from position i on
RECURSIVE poll_pools(_, _, _, _)
poll_pools(tb, i, outcome, m) ==
  IF i > Len(tb.swap_filters) \/ tb.escaped THEN tb
  ELSE LET key == tb.swap_filters[i]
           t == [tb EXCEPT !.polled = Append(@, key)]
           after == CASE outcome[i] = "raises" -> poll_error_handler(t, key)
                      [] outcome[i] = "none" -> t
                      [] OTHER -> process_swap_event(t, key, outcome[i], m)
       IN  poll_pools(after, i + 1, outcome, m)

\* the part of the state the testbot.py program does not touch
TestbotFrame ==
  UNCHANGED << is_monitoring, price_cache, trade_lock, holder, pools, orch,
               watcher, exec, zero_seen, dec_vars, price_decimals, probe,
               last_eval, loop_thread, config, selection, event_filter >>

\* run(): filters are created for the pools (creation may fail for one of
\* them), and the polling coroutine is scheduled on the loop thread; with no
\* pool or no filter run returns
Run ==
  /\ testbot.poll = "not_started"
  /\ \E failed \in {{}} \cup {{k} : k \in testbot.pools} :
       LET created == Restrict(PoolOrder, testbot.pools \ failed)
       IN  testbot' = [testbot EXCEPT
                         !.swap_filters = created,
                         !.poll = IF created = << >> THEN "not_run" ELSE "cycle"]
  /\ TestbotFrame

\* one pass of the while loop of _poll_swap_events_periodically, up to its
\* await of asyncio.sleep: every filter is polled and every entry processed;
\* an exception raised outside the per-pool try (unexpected) is logged by
\* the outer handler, which sleeps five intervals
PollCycle(markets) ==
  /\ testbot.poll = "cycle"
  /\ testbot.cycles < MaxCycles
  /\ \E outcome \in [1..Len(testbot.swap_filters) -> EntryOutcomes],
        m \in markets, unexpected \in BOOLEAN :
       LET start == [testbot EXCEPT !.polled = << >>, !.processed = << >>,
                                    !.raised = {}, !.outcome = outcome,
                                    !.escaped = FALSE, !.cycles = @ + 1]
           r == poll_pools(start, 1, outcome, m)
       IN  testbot' = [r EXCEPT !.poll = IF r.escaped \/ unexpected
                                           THEN "error_sleep" ELSE "sleep",
                                !.escaped = r.escaped \/ unexpected]
  /\ TestbotFrame

\* asyncio.sleep returns: the while loop starts its next pass
SleepWake ==
  /\ testbot.poll \in {"sleep", "error_sleep"}
  /\ testbot' = [testbot EXCEPT !.poll = "cycle"]
  /\ TestbotFrame

\* poll_future.cancel() (run, on KeyboardInterrupt): CancelledError is
\* raised at the await the coroutine is suspended in; `except
\* asyncio.CancelledError: break` (or, in the outer handler's sleep, the
\* exception itself) ends the coroutine
CancelPolling ==
  /\ testbot.poll \in {"cycle", "sleep", "error_sleep"}
  /\ testbot' = [testbot EXCEPT !.poll = "ended", !.cancelled = TRUE]
  /\ TestbotFrame

\* the markets a polling cycle may meet: no spread, a price that cannot be
\* read, and a spread of 25 with a low or a high gas price, a sufficient or
\* an insufficient balance, and a submission that succeeds or raises
CycleMarkets ==
  LET rich == [units |-> 2000, below |-> 0]
      poor == [units |-> 100, below |-> 0]
  IN  { Market(100, 100, 50, rich, FALSE, "ok"),
        Market(100, 0, 50, rich, FALSE, "ok"),
        Market(100, 125, 50, rich, FALSE, "ok"),
        Market(100, 125, 120, rich, FALSE, "ok"),
        Market(100, 125, 50, poor, FALSE, "ok"),
        Market(100, 125, 50, rich, FALSE, "send_raises") }

\* a monitor constructed with any flags, either gas price limit and either
\* set of pools; the final_bot.py program is at rest
InitTestbot ==
  /\ ObjectInit
  /\ pools = Pairs
  /\ orch = [pc |-> "idle", idx |-> 0, valid_pairs |-> << >>, stable_decimals |-> 0,
             pair_seq |-> << >>, tasks |-> << >>]
  /\ config = ValidConfig
  /\ testbot \in { TestbotMonitor(sim, mon, limit, found) :
                     sim \in BOOLEAN, mon \in BOOLEAN,
                     limit \in GasLimits, found \in PoolSets }

NextTestbot ==
  \/ Run
  \/ PollCycle(CycleMarkets)
  \/ SleepWake
  \/ CancelPolling

\* SpecTestbot: the testbot.py monitor from run() on
SpecTestbot == InitTestbot /\ [][NextTestbot]_vars



\* ------------------------------------- testbot.py: _execute_arbitrage alone

MaxInvoked == 2

\* the fee tiers _execute_arbitrage is called for: one with both pools, one
\* whose sushiswap pool (and, in one pool set, uniswap pool) does not exist
ExecFees == {500, 3000}

\* gas prices in tenths of a gwei: under the default limit, just over it,
\* and three between 26 and 30.1 gwei
ExecGas == {50, 101, 261, 262, 301}

\* For a balance equal to the estimated gas cost of the gas price (below =
\* 0) or 1 wei under it (below = 1): the double nearest to the balance is
\* not below the cost.  Computed from the code's own conversion,
\* float(from_wei(balance_wei, 'ether')) < from_wei(gas_price_wei * 600000,
\* 'ether'), for each gas price of ExecGas.
NearestDoubleNotBelowCost ==
  { << 50, 0 >>, << 101, 0 >>, << 261, 0 >>, << 261, 1 >>, << 262, 0 >> }

\* the markets of a call: every gas price of ExecGas, with a balance one
\* unit under the estimated cost, 1 wei under it, equal to it and one unit
\* over it, and every RPC outcome
ExecMarkets ==
  { Market(100, 125, g, [units |-> estimated_gas_cost(g) + b[1], below |-> b[2]],
           b[1] = 0 /\ << g, b[2] >> \in NearestDoubleNotBelowCost, rpc) :
      g \in ExecGas,
      b \in { << -1, 0 >>, << 0, 1 >>, << 0, 0 >>, << 1, 0 >> },
      rpc \in {"ok", "gas_price_raises", "nonce_raises", "send_raises"} }

\* a call of _execute_arbitrage for some fee tier in some market
ExecuteCall ==
  /\ testbot.invoked < MaxInvoked
  /\ \E fee \in ExecFees, m \in ExecMarkets :
       testbot' = execute_arbitrage(testbot, fee, m)
  /\ TestbotFrame

NextExecute == ExecuteCall

\* SpecExecute: _execute_arbitrage applied to bounded inputs
SpecExecute == InitTestbot /\ [][NextExecute]_vars


\* ------------------------------------------------------------- claims

\* C1: trade-lock exclusivity.  At most one execute_arbitrage task is
\* between its acquire and its release (at one of the awaits of the try
\* block) in any reachable state.
TradeLockExclusivity ==
  \A e1, e2 \in ExecIds :
    (exec[e1].pc \in CriticalPcs /\ exec[e2].pc \in CriticalPcs) => e1 = e2

\* a task is in its critical section while another one wants the lock
TradeLockContended ==
  \E e1, e2 \in ExecIds :
    /\ exec[e1].pc \in CriticalPcs
    /\ exec[e2].pc = "lock_wait"

\* task e finishes in this step
Finishes(e) == exec[e].pc \notin {"none", "done"} /\ exec'[e].pc = "done"

\* C2: trade-lock release.  The step in which a task that holds the lock
\* finishes, on any outcome, unlocks the lock it holds; a task that does
\* not hold the lock never unlocks it; the lock is unlocked in no other
\* step; a finished task stays finished (so it releases once); and the
\* lock is never left locked without a task in its critical section.
TradeLockReleasedOnce ==
  /\ [][\A e \in ExecIds :
          /\ (Finishes(e) /\ exec[e].pc \in CriticalPcs) =>
               (trade_lock.locked /\ holder = e /\ ~trade_lock'.locked)
          /\ (Finishes(e) /\ exec[e].pc \notin CriticalPcs) =>
               (trade_lock'.locked = trade_lock.locked /\ holder' = holder)
          /\ exec[e].pc = "done" => exec'[e].pc = "done"]_vars
  /\ [][(trade_lock.locked /\ ~trade_lock'.locked) =>
          \E e \in ExecIds : Finishes(e) /\ holder = e]_vars
  /\ [](trade_lock.locked =>
          \E e \in ExecIds : exec[e].pc \in CriticalPcs /\ holder = e)

\* two tasks that held the lock have finished (before any shutdown, so
\* neither was cancelled before it acquired) and the lock is free
TradeLockReleasedTwice ==
  /\ orch.pc = "gather"
  /\ \E e1, e2 \in ExecIds :
       e1 # e2 /\ exec[e1].pc = "done" /\ exec[e2].pc = "done"
  /\ ~trade_lock.locked
  /\ trade_lock.waiters = << >>

\* C3: no permanent starvation.  Under SpecLive, whenever the trade lock is
\* locked it is eventually unlocked.
TradeLockEventuallyFree == trade_lock.locked ~> ~trade_lock.locked

\* a task that had to wait for the lock has obtained it after the holder
\* finished
TradeLockHandedOver ==
  \E e1, e2 \in ExecIds :
    /\ exec[e1].pc = "done"
    /\ exec[e2].contended /\ exec[e2].pc \in CriticalPcs

\* C4: non-blocking acquire with drop.  No task ever waits for the lock,
\* and a task that found the lock held never enters the critical section,
\* so it never submits a transaction.
NonBlockingAcquireDrops ==
  \A e \in ExecIds :
    /\ exec[e].pc # "lock_wait"
    /\ exec[e].contended => (exec[e].pc \notin CriticalPcs /\ ~exec[e].submitted)

\* C5: cooldown on every outcome.  While the monitor runs (no shutdown, so
\* no cancellation), a task that holds the lock finishes, and so releases
\* the lock, only from the cooldown sleep.
CooldownOnEveryOutcome ==
  [][\A e \in ExecIds :
       (Finishes(e) /\ exec[e].pc \in CriticalPcs /\ orch.pc # "returned")
         => exec[e].pc = "cooldown"]_vars

\* a poll (get_new_entries) of watcher p raises a 'filter not found' error
\* in this step
FilterExpired(p) ==
  /\ watcher[p].pc = "ACTIVE_POLLING"
  /\ ~watcher[p].cancel_requested
  /\ watcher'[p].error = "filter not found"

\* an error other than filter expiry is caught in watcher p in this step
OtherErrorCaught(p) ==
  /\ watcher[p].pc \in {"RESOLVING_POOL", "ACTIVE_POLLING", "ERROR_BACKOFF"}
  /\ ~watcher[p].cancel_requested
  /\ watcher'[p] # watcher[p]
  /\ watcher'[p].cancel_requested = watcher[p].cancel_requested
  /\ watcher'[p].error = "other"

\* a poll of watcher p succeeds in this step
PollSucceeded(p) ==
  /\ watcher[p].pc = "ACTIVE_POLLING"
  /\ watcher'[p].pc \in {"REFRESH", "POLL_SLEEP"}

\* C6: filter-expiry resilience.  A poll that fails with 'filter not
\* found' leaves consecutive_errors as it was, applies no backoff delay
\* and the watcher stays out of ERROR_BACKOFF.
FilterExpiryNotCounted ==
  [][\A p \in Pairs :
       FilterExpired(p) =>
         /\ watcher'[p].consecutive_errors = watcher[p].consecutive_errors
         /\ watcher'[p].sleep_time = 0
         /\ watcher'[p].pc # "ERROR_BACKOFF"]_vars

StoppedOnlyByNoPoolOrCancel ==
  \A p \in Pairs :
    watcher[p].pc = "STOPPED" =>
      watcher[p].stop_cause \in {"no_pool", "flag_cleared", "cancelled"}

\* C8 as amended: a watcher task ends only in get_pair_address (zero
\* address, or a failed lookup), on a cleared monitoring flag or by
\* cancellation; no error of the polling loop ends it; and a stopped
\* watcher never changes again.
WatcherTermination ==
  /\ [][\A p \in Pairs :
          (watcher[p].pc # "STOPPED" /\ watcher'[p].pc = "STOPPED") =>
            \/ /\ watcher[p].pc = "RESOLVING_POOL"
               /\ watcher'[p].stop_cause \in {"no_pool", "lookup_failed"}
            \/ watcher[p].cancel_requested /\ watcher'[p].stop_cause = "cancelled"
            \/ ~is_monitoring /\ watcher'[p].stop_cause = "flag_cleared"]_vars
  /\ [][\A p \in Pairs :
          watcher[p].pc = "STOPPED" => watcher'[p] = watcher[p]]_vars

\* a watcher that had been through poll errors was stopped by cancellation
\* while another one ended on a failed pair lookup
WatcherStoppedAfterErrors ==
  \E p, q \in Pairs :
    /\ watcher[p].pc = "STOPPED" /\ watcher[p].stop_cause = "cancelled"
    /\ watcher[p].consecutive_errors >= 2
    /\ watcher[q].pc = "STOPPED" /\ watcher[q].stop_cause = "lookup_failed"

\* C9: pool absent.  A pair for which the factory returned the zero
\* address has no running watcher, was never polled and has no entry in
\* the price cache, in every later state.
PoolAbsentNeverMonitored ==
  \A p \in zero_seen :
    /\ watcher[p].pc \in {"NOT_STARTED", "STOPPED"}
    /\ ~watcher[p].polled
    /\ price_cache[p] = NoPrice

\* the factory returned the zero address for one pair, whose pool was
\* created afterwards, while the other pair is polled and has a price
PoolAbsentWhileOtherPolled ==
  \E p, q \in Pairs :
    /\ p \in zero_seen /\ p \in pools
    /\ watcher[q].polled /\ watcher[q].pc = "POLL_SLEEP"
    /\ price_cache[q] # NoPrice

\* the spread of a snapshot lies strictly between 0.8 % and 50 %
StrictlyInBand(minp, maxp) ==
  /\ minp > 0
  /\ 1000 * (maxp - minp) > 8 * minp
  /\ 2 * (maxp - minp) < minp

TaskCreated == \E e \in ExecIds : exec[e].pc = "none" /\ exec'[e].pc = "spawned"

\* the opportunity of the task created in this step
CreatedOpp == exec'[CHOOSE e \in ExecIds : exec[e].pc = "none" /\ exec'[e].pc = "spawned"].opp

\* C11: net-profit decision.  The evaluation that reaches the profit check
\* works on the lowest and the highest cached price of the token; when the
\* gas estimate arrives, a task is created if and only if
\* notional * spread - gas is strictly above the threshold (compared after
\* multiplying by the lower price), and its opportunity buys on the DEX
\* with the lowest price and sells on the one with the highest.
NetProfitDecision ==
  /\ [][\A p \in Pairs :
          (watcher[p].pc = "REFRESH" /\ watcher'[p].verdict = "profit_check") =>
            /\ watcher'[p].snap.min_price = price_cache'[<<p[1], watcher'[p].snap.min_dex>>]
            /\ watcher'[p].snap.max_price = price_cache'[<<p[1], watcher'[p].snap.max_dex>>]
            /\ \A d \in Dexes :
                 price_cache'[<<p[1], d>>] # NoPrice =>
                   /\ watcher'[p].snap.min_price <= price_cache'[<<p[1], d>>]
                   /\ price_cache'[<<p[1], d>>] <= watcher'[p].snap.max_price]_vars
  /\ [][\A p \in Pairs :
          (watcher[p].pc = "EVAL_GAS" /\ watcher'[p].pc \notin {"EVAL_GAS", "STOPPED"}) =>
            LET s == watcher[p].snap
                g == watcher'[p].gas
            IN /\ TaskCreated <=>
                    5000 * (s.max_price - s.min_price) > (10 + g) * s.min_price
               /\ TaskCreated <=> watcher'[p].verdict = "opportunity"
               /\ TaskCreated =>
                    /\ CreatedOpp.buy_dex = s.min_dex /\ CreatedOpp.buy_price = s.min_price
                    /\ CreatedOpp.sell_dex = s.max_dex /\ CreatedOpp.sell_price = s.max_price
                    /\ CreatedOpp.gas_cost = g
                    /\ CreatedOpp.token = p[1]]_vars

\* the example of the specification (prices in the ratio 100 : 102, gas 10,
\* net profit 90) has produced an opportunity that buys at the lower price,
\* while a gas cost of 90, which leaves exactly the threshold, produced none
NetProfitAtThreshold ==
  \E p, q \in Pairs :
    /\ watcher[p].verdict = "opportunity" /\ watcher[p].gas = 10
    /\ watcher[p].snap.min_price = 250 /\ watcher[p].snap.max_price = 255
    /\ \E e \in ExecIds :
         /\ exec[e].pc = "spawned"
         /\ exec[e].opp.buy_dex = watcher[p].snap.min_dex
         /\ exec[e].opp.buy_price = 250 /\ exec[e].opp.sell_price = 255
    /\ watcher[q].verdict = "unprofitable" /\ watcher[q].gas = 90
    /\ watcher[q].snap.min_price = 250 /\ watcher[q].snap.max_price = 255

\* the selected DEXes for which the cache c holds a price of token t
PricedDexes(c, t) == {d \in Dexes : c[<<t, d>>] # NoPrice}

\* C12: insufficient DEX coverage.  An evaluation that finds fewer than two
\* DEXes with a cached price for its token ends at once: no gas estimate is
\* requested, no decimals are looked up and no task is created; and a
\* watcher waiting for a gas estimate, or any task, has a token with at
\* least two cached prices.
InsufficientCoverage ==
  /\ [][\A p \in Pairs :
          (/\ watcher[p].pc = "REFRESH"
           /\ watcher'[p].pc \notin {"REFRESH", "STOPPED"}
           /\ Cardinality(PricedDexes(price_cache', p[1])) < 2) =>
            /\ watcher'[p].verdict = "few_prices"
            /\ watcher'[p].pc \notin {"EVAL_DEC", "EVAL_GAS"}
            /\ exec' = exec]_vars
  /\ [](\A p \in Pairs :
          watcher[p].pc \in {"EVAL_DEC", "EVAL_GAS"} =>
            Cardinality(PricedDexes(price_cache, p[1])) >= 2)
  /\ [](\A e \in ExecIds :
          exec[e].pc \notin {"none", "done"} =>
            Cardinality(PricedDexes(price_cache, exec[e].opp.token)) >= 2)

\* a Swap event was handled and evaluated while only the event's own DEX
\* had a price for the token
OnePriceEvaluated ==
  \E p \in Pairs :
    /\ watcher[p].verdict = "few_prices"
    /\ watcher[p].pc = "POLL_SLEEP"
    /\ PricedDexes(price_cache, p[1]) = {p[2]}

\* C13: decimals cache idempotence.  For every address at most one
\* on-chain decimals() call is ever made.
DecimalsCalledOnce == \A a \in Addrs : decimals_calls[a] <= 1

\* C14: decimals are stable per token.  For every address,
\* get_token_decimals has only ever returned one value.
DecimalsStable == \A a \in Addrs : Cardinality(decimals_seen[a]) <= 1

\* C19: flash-loan amount units.  The amount of every opportunity handed to
\* an execution task is the notional times 10 ** 6, the notional in the
\* smallest unit of the stable asset (the unit of minProfit).
FlashLoanInStableUnits ==
  \A e \in ExecIds :
    exec[e].pc \notin {"none", "done"} =>
      /\ exec[e].opp.amount.usd = 5000
      /\ exec[e].opp.amount.exp = 6

\* C15: quote sanity filter.  get_token_price returns none when the router
\* call fails, when the normalised price is not positive and when it is
\* 1e12 or more; a price strictly between is returned unchanged (a price
\* normalised with 18 decimals is 10 ** 12 times smaller than the quoted
\* number and is below the bound whenever it is positive); and every price
\* in the cache lies strictly between 0 and 1e12.
QuoteSanity ==
  /\ probe.called =>
       /\ ~probe.q.ok => probe.price = NoPrice
       /\ (probe.q.ok /\ probe.q.amount <= 0) => probe.price = NoPrice
       /\ (probe.q.ok /\ probe.d = 6 /\ probe.q.amount >= 1000000000) =>
            probe.price = NoPrice
       /\ (probe.q.ok /\ probe.d = 6 /\ probe.q.amount > 0
             /\ probe.q.amount < 1000000000) => probe.price = probe.q.amount
       /\ (probe.q.ok /\ probe.d = 18 /\ probe.q.amount > 0) =>
            probe.price = probe.q.amount
  /\ \A p \in Pairs :
       price_cache[p] # NoPrice =>
         /\ price_cache[p] > 0
         /\ price_decimals[p] = 6 => price_cache[p] < 1000000000

\* a quote of 2e12 was rejected by get_token_price while a quote of 2e11
\* is in the price cache
QuoteAboveBoundRejected ==
  /\ probe.called /\ probe.q.ok /\ probe.d = 6
  /\ probe.q.amount = 2000000000
  /\ probe.price = NoPrice
  /\ \E p \in Pairs : price_cache[p] = 200000000

\* the awaits of the price refresh, and those of the evaluation
RefreshAwaits == {"DEC_TOKEN", "DEC_STABLE", "REFRESH"}
EvalAwaits == {"EVAL_DEC", "EVAL_GAS"}

\* watcher p, with entries e left (the one in hand included), goes from the
\* end of an evaluation to the refresh of the next entry, or to the sleep
\* after the last one
NextEntryOrSleep(p, e) ==
  IF e > 1
  THEN watcher'[p].entries = e - 1 /\ watcher'[p].pc \in RefreshAwaits
  ELSE watcher'[p].entries = 0 /\ watcher'[p].pc = "POLL_SLEEP"

\* C16: per-watcher event ordering.  A poll that returns entries starts
\* with the refresh for the first one; the evaluation of an entry starts in
\* the step in which its refresh completes and works on the refreshed
\* cache; the refresh of the next entry starts only when that evaluation
\* has ended; entries are taken one at a time until none is left.
EntryOrdering ==
  [][\A p \in Pairs :
       (watcher'[p] # watcher[p] /\ watcher'[p].pc # "STOPPED"
          /\ watcher'[p].cancel_requested = watcher[p].cancel_requested) =>
         /\ watcher[p].pc = "ACTIVE_POLLING" =>
              \/ watcher'[p].entries > 0 /\ watcher'[p].pc \in RefreshAwaits
              \/ watcher'[p].entries = 0 /\ watcher'[p].pc \in {"POLL_SLEEP", "ERROR_BACKOFF"}
         /\ watcher[p].pc \in {"DEC_TOKEN", "DEC_STABLE"} =>
              /\ watcher'[p].entries = watcher[p].entries
              /\ watcher'[p].pc \in {"DEC_STABLE", "REFRESH"}
         /\ watcher[p].pc = "REFRESH" =>
              /\ watcher'[p].verdict # ""
              /\ watcher'[p].verdict # "few_prices" =>
                   /\ watcher'[p].snap.min_price =
                        price_cache'[<<p[1], watcher'[p].snap.min_dex>>]
                   /\ watcher'[p].snap.max_price =
                        price_cache'[<<p[1], watcher'[p].snap.max_dex>>]
              /\ \/ /\ watcher'[p].pc \in EvalAwaits
                    /\ watcher'[p].entries = watcher[p].entries
                 \/ NextEntryOrSleep(p, watcher[p].entries)
         /\ watcher[p].pc = "EVAL_DEC" =>
              watcher'[p].pc = "EVAL_GAS" /\ watcher'[p].entries = watcher[p].entries
         /\ watcher[p].pc = "EVAL_GAS" => NextEntryOrSleep(p, watcher[p].entries)
         /\ watcher[p].pc \notin {"ACTIVE_POLLING", "REFRESH", "EVAL_GAS"} =>
              watcher'[p].entries = watcher[p].entries
         /\ watcher'[p].pc \in EvalAwaits => watcher[p].pc \in {"REFRESH", "EVAL_DEC"}]_vars

\* the first entry of a batch of two led to an opportunity and the price
\* refresh for the second entry is under way
SecondEntryAfterOpportunity ==
  \E p \in Pairs :
    /\ watcher[p].pc = "REFRESH"
    /\ watcher[p].entries = 1
    /\ watcher[p].verdict = "opportunity"

\* the watcher task of pair p was created and has not ended
WatcherAlive(p) == watcher[p].pc \notin {"NOT_STARTED", "STOPPED"}

\* C17: cancellation.  Once the monitoring flag is false a watcher starts
\* nothing new (no poll, no backoff, no refresh: the only step it takes is
\* the one that stops it), a watcher in error backoff included; every
\* watcher alive then eventually reaches STOPPED; and when
\* monitor_opportunities has returned, every task it started has ended or
\* has been cancelled.
WatchersCancelled ==
  /\ [][\A p \in Pairs :
          (~is_monitoring /\ watcher'[p] # watcher[p]) =>
            (WatcherAlive(p) /\ watcher'[p].pc = "STOPPED")]_vars
  /\ \A p \in Pairs :
       (~is_monitoring /\ WatcherAlive(p)) ~> (watcher[p].pc = "STOPPED")
  /\ [](orch.pc = "returned" =>
          \A p \in Range(orch.valid_pairs) :
            watcher[p].pc = "STOPPED" \/ watcher[p].cancel_requested)

\* monitoring was stopped while a watcher slept in error backoff and
\* another one waited for a poll; the first has ended, the second has not
CancelledInBackoff ==
  \E p, q \in Pairs :
    /\ ~is_monitoring /\ orch.pc = "returned"
    /\ watcher[p].pc = "STOPPED" /\ watcher[p].stop_cause = "cancelled"
    /\ watcher[p].sleep_time > 0
    /\ watcher[q].pc = "ACTIVE_POLLING" /\ watcher[q].cancel_requested

\* m is the largest integer not above 90 % of num / den stable units, in
\* the stable asset's smallest unit (10 ^ -6): with m = w * 10^6 + f,
\* (w + f / 10^6) <= 9 * num / (10 * den) < (w + (f + 1) / 10^6)
NinetyPercentOf(m, num, den) ==
  LET w == m \div 10 ^ UsdcDecimals
      f == m % 10 ^ UsdcDecimals
      rest == 9 * num - 10 * w * den
  IN /\ m >= 0
     /\ 0 <= rest /\ rest < 10 * den
     /\ f * den <= rest * 10 ^ (UsdcDecimals - 1)
     /\ rest * 10 ^ (UsdcDecimals - 1) < (f + 1) * den

\* m smallest units are not more than num / den stable units
NotAbove(m, num, den) ==
  \/ (m \div 10 ^ UsdcDecimals) * den < num
  \/ (m \div 10 ^ UsdcDecimals) * den = num /\ m % 10 ^ UsdcDecimals = 0

\* C18: execution call parameters.  From the moment a task holds the lock,
\* and so for every transaction it builds and submits, its parameters are
\* the seven values (token, stable asset, flash-loan amount, router of the
\* buy DEX, router of the sell DEX, account, minProfit) in this order, with
\* minProfit the integer part of 90 % of the opportunity's net profit in
\* millionths of a stable unit, which is not above the net profit.
ExecutionParameters ==
  \A e \in ExecIds :
    exec[e].pc \in CriticalPcs =>
      /\ Len(exec[e].params) = 7
      /\ exec[e].params[1] = exec[e].opp.token
      /\ exec[e].params[2] = "USDC"
      /\ exec[e].params[3] = exec[e].opp.amount
      /\ exec[e].params[4] = router_address[exec[e].opp.buy_dex]
      /\ exec[e].params[5] = router_address[exec[e].opp.sell_dex]
      /\ exec[e].params[4] # exec[e].params[5]
      /\ exec[e].params[6] = account_address
      /\ NinetyPercentOf(exec[e].params[7],
                         5000 * (exec[e].opp.sell_price - exec[e].opp.buy_price)
                           - exec[e].opp.gas_cost * exec[e].opp.buy_price,
                         exec[e].opp.buy_price)
      /\ NotAbove(exec[e].params[7],
                  5000 * (exec[e].opp.sell_price - exec[e].opp.buy_price)
                    - exec[e].opp.gas_cost * exec[e].opp.buy_price,
                  exec[e].opp.buy_price)

\* a transaction that buys on pancake and sells on uniswap_v2 was sent with
\* a minProfit of 81 stable units, for a net profit of 90
SubmittedWithMinProfit ==
  \E e \in ExecIds :
    /\ exec[e].submitted /\ exec[e].pc = "receipt"
    /\ exec[e].opp.buy_dex = "pancake" /\ exec[e].opp.sell_dex = "uniswap_v2"
    /\ exec[e].params[7] = 81000000

\* task e fails in this step: an await of the submission sequence or the
\* wait for the receipt ends the task, or the receipt reports a revert
ExecutionFails(e) ==
  \/ /\ exec[e].pc \in {"nonce", "gas_price", "build", "send", "receipt"}
     /\ exec'[e].pc = "done"
  \/ /\ exec[e].pc = "receipt"
     /\ exec'[e].pc = "cooldown" /\ exec'[e].status # 1

\* C20: execution failure is contained.  A step in which a task fails (an
\* exception of the nonce, gas price, build or send call, a receipt timeout,
\* a receipt with a status other than 1) changes nothing of the watchers,
\* the monitoring flag, the orchestrator or the price cache; an exception
\* ends the task with the lock released in that very step; a reverted trade
\* goes through the cooldown, and the step that ends the cooldown releases
\* the lock.
ExecutionFailureContained ==
  /\ [][\A e \in ExecIds :
          ExecutionFails(e) =>
            /\ watcher' = watcher /\ is_monitoring' = is_monitoring
            /\ orch' = orch /\ price_cache' = price_cache
            /\ \A f \in ExecIds \ {e} : exec'[f] = exec[f]
            /\ exec'[e].pc = "done" =>
                 (exec'[e] = ExecDone /\ ~trade_lock'.locked /\ holder' = 0)
            /\ exec'[e].pc = "cooldown" => (trade_lock'.locked /\ holder' = e)]_vars
  /\ [][\A e \in ExecIds :
          (exec[e].pc = "cooldown" /\ exec'[e] # exec[e]) =>
            (exec'[e] = ExecDone /\ ~trade_lock'.locked /\ holder' = 0)]_vars

\* a trade reverted and its task is in the cooldown, the monitoring is on
\* and a watcher that has handled a later Swap event is polling
RevertedWhileMonitoring ==
  \E e \in ExecIds, p \in Pairs :
    /\ exec[e].pc = "cooldown" /\ exec[e].status = 0
    /\ is_monitoring
    /\ watcher[p].pc = "ACTIVE_POLLING"
    /\ \E f \in ExecIds \ {e} : exec[f].pc = "lock_wait"

\* C21: gas estimation never fails.  Whenever estimate_gas_cost returns in
\* an evaluation, its value is gas price * 600000 gas in USD if the gas
\* price read and the ETH/USD feed both answered and 10 USD if either
\* failed; the evaluation goes on with that value to its profit decision,
\* and the watcher neither counts an error nor backs off nor stops.
GasEstimateNeverFails ==
  [][\A p \in Pairs :
       (watcher[p].pc = "EVAL_GAS" /\ watcher'[p] # watcher[p]
          /\ ~watcher[p].cancel_requested /\ ~watcher'[p].cancel_requested) =>
         LET r == watcher'[p].gas_read
             s == watcher[p].snap
         IN /\ r.called
            /\ (r.gas_price.ok /\ r.feed.ok) =>
                 watcher'[p].gas * 1000000 = r.gas_price.gwei * 600 * r.feed.usd
            /\ (~r.gas_price.ok \/ ~r.feed.ok) => watcher'[p].gas = 10
            /\ watcher'[p].verdict \in {"opportunity", "unprofitable"}
            /\ watcher'[p].verdict = "opportunity" <=>
                 5000 * (s.max_price - s.min_price) - watcher'[p].gas * s.min_price
                   > 10 * s.min_price
            /\ watcher'[p].pc \in {"POLL_SLEEP"} \cup RefreshAwaits
            /\ watcher'[p].consecutive_errors = watcher[p].consecutive_errors]_vars

\* the gas price was read but the feed failed: the evaluation went on with
\* 10 USD and found an opportunity
FeedFailedFallbackUsed ==
  \E p \in Pairs :
    /\ watcher[p].gas_read.called
    /\ watcher[p].gas_read.gas_price.ok /\ ~watcher[p].gas_read.feed.ok
    /\ watcher[p].gas = 10
    /\ watcher[p].verdict = "opportunity"

\* the number of entries of the list s equal to x
Count(s, x) == Cardinality({i \in 1..Len(s) : s[i] = x})

\* C22 as claimed: orchestrator start-up.  Once the tasks are created there
\* is exactly one watcher task for every (token, DEX) combination whose pool
\* was verified and none for the others; and when no pool was found the
\* orchestrator has returned with the monitoring flag cleared and no task.
OneWatcherPerVerifiedPool ==
  /\ orch.pc = "gather" =>
       \A p \in Pairs :
         Count(orch.tasks, p) = IF p \in Range(orch.valid_pairs) THEN 1 ELSE 0
  /\ orch.pc \in {"verify", "fetch", "fetch_dec_token", "fetch_dec_stable"} =>
       (orch.tasks = << >> /\ \A p \in Pairs : watcher[p].pc = "NOT_STARTED")
  /\ (orch.pc = "returned" /\ orch.valid_pairs = << >>) =>
       /\ ~is_monitoring
       /\ orch.tasks = << >>
       /\ \A p \in Pairs : watcher[p].pc = "NOT_STARTED"

\* the pcs of a task before its transaction is sent
BeforeSend == {"spawned", "lock_wait", "nonce", "gas_price", "build", "send"}

\* C23: opportunity consumed exactly once.  The step in which an
\* evaluation produces an opportunity creates exactly one execution task
\* with it (and an evaluation that produces none creates no task); a task
\* comes from nowhere else, keeps its opportunity until it ends and is
\* never started again; and a task sends at most one transaction: it is
\* marked submitted only by the step from the send to the receipt wait and
\* never returns to the awaits before the send.
OpportunityConsumedOnce ==
  /\ [][\A p \in Pairs :
          (watcher[p].pc = "EVAL_GAS" /\ watcher'[p].pc \notin {"EVAL_GAS", "STOPPED"}) =>
            IF watcher'[p].verdict = "opportunity"
            THEN \E e \in ExecIds :
                   /\ exec[e].pc = "none" /\ exec'[e].pc = "spawned"
                   /\ exec'[e].opp.token = p[1]
                   /\ exec'[e].opp.buy_dex = watcher[p].snap.min_dex
                   /\ exec'[e].opp.sell_dex = watcher[p].snap.max_dex
                   /\ \A f \in ExecIds \ {e} : exec'[f] = exec[f]
            ELSE exec' = exec]_vars
  /\ [][\A e \in ExecIds :
          (exec[e].pc = "none" /\ exec'[e] # exec[e]) =>
            \E p \in Pairs : /\ watcher[p].pc = "EVAL_GAS"
                             /\ watcher'[p].verdict = "opportunity"
                             /\ watcher'[p].pc # "EVAL_GAS"]_vars
  /\ [][\A e \in ExecIds :
          /\ exec[e].pc \notin {"none", "done"} =>
               (exec'[e].opp = exec[e].opp \/ exec'[e] = ExecDone)
          /\ exec[e].pc = "done" => exec'[e] = exec[e]
          /\ exec'[e].pc = "spawned" => exec[e].pc \in {"none", "spawned"}]_vars
  /\ [][\A e \in ExecIds :
          /\ (exec'[e].submitted /\ ~exec[e].submitted) =>
               (exec[e].pc = "send" /\ exec'[e].pc = "receipt")
          /\ exec[e].submitted => exec'[e].pc \notin BeforeSend]_vars

\* two opportunities in opposite directions, each with its own task: the
\* transaction of the first was sent and its trade is in the cooldown, the
\* task of the second has not run yet
TwoOpportunitiesTwoTasks ==
  \E e, f \in ExecIds :
    /\ exec[e].submitted /\ exec[e].pc = "cooldown"
    /\ exec[f].pc = "spawned" /\ ~exec[f].submitted
    /\ exec[e].opp.buy_dex = exec[f].opp.sell_dex
    /\ exec[e].opp.sell_dex = exec[f].opp.buy_dex

\* C24 as claimed: evaluation is idempotent.  When an evaluation takes its
\* profit decision on the snapshot and the gas estimate of the previous
\* decision, no cache entry having changed since either of the two
\* evaluations read the cache, it adds nothing to the effect of the first:
\* no further execution task; and no step of an evaluation writes the price
\* cache.
EvaluationIdempotent ==
  /\ [][\A p \in Pairs :
          (/\ watcher[p].pc = "EVAL_GAS"
           /\ watcher'[p].pc \notin {"EVAL_GAS", "STOPPED"}
           /\ last_eval.valid /\ p \notin last_eval.stale
           /\ last_eval.snap = watcher[p].snap
           /\ last_eval.gas = watcher'[p].gas) =>
            exec' = exec]_vars
  /\ [][\A p \in Pairs :
          (watcher[p].pc \in {"EVAL_DEC", "EVAL_GAS"} /\ watcher'[p] # watcher[p]) =>
            (price_cache' = price_cache /\ price_decimals' = price_decimals)]_vars

\* an outbound call made for watcher p (its poll, a decimals lookup, its
\* quote, its gas price read or its feed request) has not returned
CallOutstanding(p) ==
  \/ loop_thread.caller = p
  \/ /\ watcher[p].pc \in {"RESOLVING_POOL", "ACTIVE_POLLING", "DEC_TOKEN", "DEC_STABLE",
                           "REFRESH", "EVAL_DEC", "EVAL_GAS"}
     /\ ~watcher[p].cancel_requested

\* the next step of a watcher whose sleep has ended or whose poll or quote
\* has returned
ReadyStep(w) ==
  \/ PollSleepWake(w)
  \/ Poll(w, NoErrors, SingleEntry)
  \/ Refresh(w, QuoteAmounts)

\* C25 as claimed: RPC isolation.  While an outbound call made for one
\* watcher is outstanding, every other watcher that waits for its sleep,
\* its poll or its quote can take its next step as soon as that returns.
RpcIsolation ==
  \A p, w \in Pairs :
    (/\ p # w
     /\ CallOutstanding(p)
     /\ watcher[w].pc \in {"POLL_SLEEP", "ACTIVE_POLLING", "REFRESH"}
     /\ ~watcher[w].cancel_requested) =>
      ENABLED ReadyStep(w)


\* C26: configuration errors stop start-up.  When RPC_URL, PRIVATE_KEY or
\* CONTRACT_ADDRESS is missing or malformed (no URL or the template URL, a
\* key that is not 64 hex digits, an address that is not 40 hex digits),
\* main never reaches monitor_opportunities: it returns from the missing
\* check or from the exception __init__ raises, the monitoring flag is
\* never set, no watcher ever leaves its initial state and no execution
\* task, so no transaction, ever exists.
WellFormed(c) ==
  /\ c.rpc_url.present /\ c.rpc_url.url /\ ~c.rpc_url.placeholder
  /\ c.private_key.hex /\ BodyLen(c.private_key) = 64
  /\ c.contract_address.hex /\ BodyLen(c.contract_address) = 40

ConfigurationErrorsStopStartup ==
  ~WellFormed(config) =>
    /\ orch.pc \in {"main", "construct", "exit"}
    /\ ~is_monitoring
    /\ \A p \in Pairs : watcher[p] = WatcherInit
    /\ \A e \in ExecIds : exec[e] = ExecInit
    /\ orch.tasks = << >>

\* C26 witness: main has returned on a configuration whose key is
\* malformed, after the constructor raised on it
MalformedKeyRejected ==
  /\ orch.pc = "exit"
  /\ Missing(config) = {}
  /\ ~from_key(config.private_key)
  /\ config.rpc_url = GoodUrl
  /\ config.contract_address = GoodAddress

\* the update_price_for_dex call for key k is about to return: that of the
\* initial fetch, or that of watcher k's refresh; and the stable decimals
\* its get_token_price normalises with
StoreReturns(k) ==
  \/ orch.pc = "fetch" /\ orch.valid_pairs[orch.idx] = k
  \/ watcher[k].pc = "REFRESH"

StoreDecimals(k) ==
  IF orch.pc = "fetch" THEN orch.stable_decimals ELSE watcher[k].stable_decimals

\* C27: price cache writes.  The entry of a key changes only in the step
\* in which update_price_for_dex returns for that key, so every read
\* between two stores sees the price of the earlier one (last writer
\* wins); that step changes no other key; the new value is the price
\* get_token_price returned for some quote, never none, so a quote that
\* returns none leaves the entry as it was; and every value held in the
\* cache lies strictly between 0 and 1e12.
PriceCacheWrites ==
  /\ [](\A k \in Pairs :
         price_cache[k] # NoPrice =>
           /\ price_cache[k] > 0
           /\ price_decimals[k] = 6 => price_cache[k] < 1000000000)
  /\ [][\A k \in Pairs :
          price_cache'[k] # price_cache[k] =>
            /\ StoreReturns(k)
            /\ \A j \in Pairs \ {k} : price_cache'[j] = price_cache[j]
            /\ price_cache'[k] # NoPrice
            /\ \E q \in Quotes(CacheAmounts) :
                 /\ q.ok /\ q.amount > 0
                 /\ price_cache'[k] = get_token_price(q, StoreDecimals(k))]_vars

\* C27 witness: a watcher's refresh has returned and the two keys of its
\* token hold different prices, the later store not having touched the
\* other key
TwoKeysTwoPrices ==
  \E p \in Pairs, o \in Pairs :
    /\ p[1] = o[1] /\ p # o
    /\ watcher[p].pc = "EVAL_GAS"
    /\ price_cache[p] = 255 /\ price_cache[o] = 250

\* the place of DEX d in the selected order o
Place(o, d) == CHOOSE i \in 1..Len(o) : o[i] = d

\* C28: deterministic DEX selection.  With two or more cached prices the
\* minimum DEX is the one, among the DEXes holding the lowest cached price,
\* that comes first in the selected order, and the maximum DEX the first
\* among those holding the highest, so the same prices and order always
\* give the same two DEXes; the two coincide exactly when all cached
\* prices are equal, and then the evaluation returns without an opportunity.
DeterministicDexSelection ==
  (selection.called /\ selection.outcome # "few_prices") =>
    LET o == selection.order
        r == selection.row
        priced == {d \in DexKeys : r[d] # NoPrice}
        lowest == {d \in priced : \A e \in priced : r[d] <= r[e]}
        highest == {d \in priced : \A e \in priced : r[e] <= r[d]}
    IN /\ selection.min_dex \in lowest
       /\ \A d \in lowest : Place(o, selection.min_dex) <= Place(o, d)
       /\ selection.max_dex \in highest
       /\ \A d \in highest : Place(o, selection.max_dex) <= Place(o, d)
       /\ (selection.min_dex = selection.max_dex) <=> (lowest = priced)
       /\ (selection.outcome = "same_dex") <=> (selection.min_dex = selection.max_dex)

\* C28 witness: two DEXes are tied at the highest price and the one that
\* comes first in the selected order, baseswap, was chosen as the maximum
TieBrokenBySelectedOrder ==
  /\ selection.called
  /\ selection.order = << "baseswap", "uniswap_v2", "pancake" >>
  /\ selection.row["uniswap_v2"] = 250
  /\ selection.row["pancake"] = 255 /\ selection.row["baseswap"] = 255
  /\ selection.min_dex = "uniswap_v2" /\ selection.max_dex = "baseswap"
  /\ selection.outcome = "goes_on"

\* C29: opportunity well-formedness.  Every opportunity constructed (every
\* one an execution task holds) buys and sells on two different selected
\* DEXes, at a buy price strictly below the sell price, with a spread
\* strictly between 0.8 % and 50 %; its net profit is its expected profit
\* less its gas cost and is strictly above the threshold of 10 (profits
\* compared after multiplying by the buy price).
OpportunityWellFormed ==
  \A e \in ExecIds :
    exec[e].opp # NoOpp =>
      LET o == exec[e].opp
      IN /\ o.buy_dex # o.sell_dex
         /\ o.buy_dex \in Dexes /\ o.sell_dex \in Dexes
         /\ 0 < o.buy_price /\ o.buy_price < o.sell_price
         /\ 1000 * (o.sell_price - o.buy_price) > 8 * o.buy_price
         /\ 100 * (o.sell_price - o.buy_price) < 50 * o.buy_price
         /\ o.expected_profit = 5000 * (o.sell_price - o.buy_price)
         /\ o.net_profit = o.expected_profit - o.gas_cost * o.buy_price
         /\ o.net_profit > 10 * o.buy_price

\* C29 witness: an opportunity inside the band, bought at 252 and sold at
\* 375 with a gas cost of 120: expected profit 615000/252, net 584760/252
WideSpreadOpportunity ==
  \E e \in ExecIds :
    /\ exec[e].pc = "spawned"
    /\ exec[e].opp.buy_price = 252 /\ exec[e].opp.sell_price = 375
    /\ exec[e].opp.gas_cost = 120
    /\ exec[e].opp.expected_profit = 615000
    /\ exec[e].opp.net_profit = 584760

\* int(net_profit * 10 ** 6 * 0.9) of opportunity o, from its net_profit
\* field (a numerator over buy_price)
SnapshotMinProfit(o) ==
  (o.net_profit \div o.buy_price) * 900000
    + ((o.net_profit % o.buy_price) * 900000) \div o.buy_price

\* C30: execution uses the detection-time snapshot.  The opportunity of a
\* task is the one its creating evaluation built and is never changed
\* while the task lives; the parameters of its transaction are built from
\* that opportunity alone (routers of its buy and sell DEX, its amount, 90 %
\* of its net profit), whatever the price cache holds when the task has
\* obtained the trade lock; and the step that builds them needs nothing of
\* the cache: no cache content stops or changes the execution.
ExecutionUsesSnapshot ==
  /\ [](\A e \in ExecIds :
         exec[e].params # << >> =>
           /\ exec[e].opp # NoOpp
           /\ exec[e].params = << exec[e].opp.token, Stable, exec[e].opp.amount,
                                  router_address[exec[e].opp.buy_dex],
                                  router_address[exec[e].opp.sell_dex],
                                  account_address, SnapshotMinProfit(exec[e].opp) >>)
  /\ [][\A e \in ExecIds :
          /\ (exec[e].pc = "none" /\ exec'[e].pc # "none") =>
                \E p \in Pairs :
                  /\ watcher[p].pc = "EVAL_GAS"
                  /\ exec'[e].opp.token = p[1]
                  /\ exec'[e].opp.buy_dex = watcher[p].snap.min_dex
                  /\ exec'[e].opp.sell_dex = watcher[p].snap.max_dex
                  /\ exec'[e].opp.buy_price = watcher[p].snap.min_price
                  /\ exec'[e].opp.sell_price = watcher[p].snap.max_price
          /\ (exec[e].pc \notin {"none", "done"}) =>
                (exec'[e].opp = exec[e].opp \/ exec'[e] = ExecDone)
          /\ (exec[e].params # << >>) =>
                (exec'[e].params = exec[e].params \/ exec'[e] = ExecDone)]_vars

\* C30 witness: a transaction was submitted for an opportunity detected at
\* 250 -> 255 although, by the time it was sent, both DEXes were cached at
\* the same price, so that an evaluation would have found nothing
SubmittedAfterCacheChanged ==
  \E e \in ExecIds :
    /\ exec[e].submitted
    /\ exec[e].opp.buy_price = 250 /\ exec[e].opp.sell_price = 255
    /\ price_cache[<< exec[e].opp.token, exec[e].opp.buy_dex >>]
         = price_cache[<< exec[e].opp.token, exec[e].opp.sell_dex >>]
    /\ exec[e].params[7] = SnapshotMinProfit(exec[e].opp)

\* a trade is in flight or in its cooldown: a task is inside the try block
TradeInProgress == \E e \in ExecIds : exec[e].pc \in CriticalPcs

\* the next step of watcher p in its own code, in the market of Spec
WatcherStep(p) ==
  \/ ResolvePool(p, NoErrors)
  \/ Poll(p, NoErrors, SingleEntry)
  \/ Refresh(p, QuoteAmounts)
  \/ FeedRequest(p)
  \/ EvalGas(p)
  \/ PollSleepWake(p)

\* C31: watchers are not paused by a trade.  The step that creates an
\* execution task takes the watcher on to its next entry or its sleep (the
\* task is not awaited), and while a trade is in flight or in its cooldown
\* every live watcher that has not been cancelled can take the next step
\* of its loop (poll, refresh, evaluation) whenever the event loop is free.
WatchersNotPausedByTrade ==
  /\ [](\A p \in Pairs :
         (/\ TradeInProgress
          /\ LoopFree
          /\ WatcherAlive(p)
          /\ ~watcher[p].cancel_requested) => ENABLED WatcherStep(p))
  /\ [][\A p \in Pairs :
          (watcher[p].pc = "EVAL_GAS" /\ watcher'[p].verdict = "opportunity"
             /\ watcher'[p] # watcher[p]) =>
            /\ watcher'[p].pc \in RefreshAwaits \cup {"POLL_SLEEP", "STOPPED"}
            /\ \A e \in ExecIds : exec'[e].pc \in {"none", "spawned"} \/ exec'[e] = exec[e]]_vars

\* C31 witness: while one trade is in its cooldown a watcher has refreshed
\* the cache, is at the end of an evaluation and can create a further task
FurtherTaskDuringCooldown ==
  \E e \in ExecIds, p \in Pairs :
    /\ exec[e].pc = "cooldown"
    /\ watcher[p].pc = "EVAL_GAS"
    /\ ENABLED (EvalGas(p) /\ TaskCreated)

\* C32: error during a batch.  When an exception is raised while a watcher
\* handles an entry of a batch, the rest of the batch is dropped, the error
\* counter goes up by one and the backoff min(5 * errors, 60) is applied,
\* and the filter is given up; entries reach a watcher only through a poll
\* of the filter it holds, which returns what was appended since that
\* filter was created or last polled; the filter created after the backoff
\* starts empty, so whatever was appended while the watcher held no filter
\* is never returned (the count of lost entries never goes down).
ErrorDuringBatch ==
  /\ [](\A p \in Pairs : watcher[p].pc = "ACTIVE_POLLING" => event_filter[p].live)
  /\ [][\A p \in Pairs :
          /\ (watcher[p].pc = "REFRESH" /\ watcher'[p].pc = "ERROR_BACKOFF") =>
                /\ watcher'[p].entries = 0
                /\ watcher'[p].consecutive_errors = watcher[p].consecutive_errors + 1
                /\ watcher'[p].sleep_time = 5 * watcher'[p].consecutive_errors
                /\ watcher'[p].sleep_time <= 60
                /\ ~event_filter'[p].live
          /\ (watcher'[p].entries > watcher[p].entries) =>
                /\ watcher[p].pc = "ACTIVE_POLLING"
                /\ watcher'[p].entries = event_filter[p].pending
                /\ event_filter'[p].pending = 0
          /\ (watcher[p].pc = "ERROR_BACKOFF" /\ watcher'[p].pc = "ACTIVE_POLLING") =>
                event_filter'[p] = [live |-> TRUE, pending |-> 0,
                                    lost |-> event_filter[p].lost]
          /\ event_filter'[p].lost >= event_filter[p].lost]_vars

\* C32 witness: a watcher handles an entry returned by the filter it
\* created after a failed batch, while two entries appended before that
\* filter existed have never been returned
EntriesLostAfterBatchError ==
  \E p \in Pairs :
    /\ watcher[p].pc = "REFRESH"
    /\ watcher[p].entries = 2
    /\ event_filter[p].live
    /\ event_filter[p].lost = 2

\* the orchestrator is in its initial price fetch (a decimals lookup of it
\* included)
FetchPcs == {"fetch_dec_token", "fetch_dec_stable", "fetch"}

\* C33: start-up ordering.  The initial fetch takes the verified pairs one
\* by one from the first to the last, and the watcher tasks are created,
\* all of them, in the step in which the fetch for the last pair returns;
\* until then no watcher exists, so none has polled, refreshed or evaluated.
StartupOrdering ==
  /\ [](\A p \in Pairs :
         (watcher[p].pc # "NOT_STARTED" \/ watcher[p].snap # NoSnap
            \/ watcher[p].verdict # "" \/ watcher[p].polled) =>
           /\ orch.pc \in {"gather", "returned"}
           /\ orch.tasks = orch.valid_pairs)
  /\ [][/\ (orch.pc = "verify" /\ orch'.pc \in FetchPcs) => orch'.idx = 1
        /\ (orch.pc \in FetchPcs /\ orch'.idx # orch.idx) =>
              /\ orch.pc = "fetch"
              /\ \/ orch'.idx = orch.idx + 1 /\ orch'.pc \in FetchPcs
                 \/ orch.idx = Len(orch.valid_pairs) /\ orch'.pc = "gather"
        /\ (\E p \in Pairs : watcher[p].pc = "NOT_STARTED"
                                /\ watcher'[p].pc # "NOT_STARTED") =>
              /\ orch.pc = "fetch"
              /\ orch.idx = Len(orch.valid_pairs)
              /\ orch'.pc = "gather"
              /\ \A q \in Range(orch.valid_pairs) : watcher'[q].pc = "RESOLVING_POOL"]_vars

\* C33 witness: two pairs were verified and fetched, their watchers were
\* started and one of them has evaluated an entry
EvaluatedAfterInitialFetch ==
  /\ orch.pc = "gather"
  /\ Len(orch.valid_pairs) = 2
  /\ \E p \in Pairs : watcher[p].pc = "EVAL_GAS" /\ watcher[p].verdict = "profit_check"

PerPoolPollIsolation ==
  /\ [](testbot.cycles > 0 =>
          /\ testbot.polled = testbot.swap_filters
          /\ \A i \in 1..Len(testbot.swap_filters) :
               testbot.outcome[i] \in {"event", "bad_event"} =>
                 testbot.swap_filters[i] \in Range(testbot.processed)
          /\ (testbot.poll = "ended" => testbot.cancelled))
  /\ [][(testbot.poll # "ended" /\ testbot'.poll = "ended") =>
          (~testbot.cancelled /\ testbot'.cancelled
             /\ testbot'.cycles = testbot.cycles)]_vars

\* C35 witness: in one cycle over three filters the poll of the first
\* raised, the entry of the second could not be decoded, and the entry of
\* the third was processed; the coroutine sleeps its normal interval
PollErrorIsolated ==
  /\ testbot.cycles > 0
  /\ Len(testbot.swap_filters) = 3
  /\ testbot.outcome = << "raises", "bad_event", "event" >>
  /\ testbot.raised = {testbot.swap_filters[1]}
  /\ testbot.processed = << testbot.swap_filters[2], testbot.swap_filters[3] >>
  /\ testbot.poll = "sleep"

\* C36: simulate / monitor-only mode (testbot.py).  A monitor constructed
\* with simulate or monitor_only set never invokes _execute_arbitrage and
\* never signs or sends a transaction, whatever events and prices its
\* polling cycles meet; the flags do not change after construction.
NoExecutionWhenSimulating ==
  /\ []((testbot.simulate \/ testbot.monitor_only) =>
          /\ testbot.invoked = 0
          /\ testbot.signed = 0
          /\ testbot.sent = 0
          /\ testbot.last = NoExecution)
  /\ [][/\ testbot'.simulate = testbot.simulate
        /\ testbot'.monitor_only = testbot.monitor_only]_vars

\* C36 witness: a monitor in simulate mode (monitor_only not set) has
\* detected opportunities in two polling cycles and executed none
OpportunityDetectedInSimulateMode ==
  /\ testbot.simulate
  /\ ~testbot.monitor_only
  /\ testbot.cycles = 2
  /\ testbot.detected >= 2
  /\ testbot.invoked = 0

\* the account balance is below the estimated gas cost, as exact amounts
BalanceBelowEstimatedCost(e) ==
  \/ e.balance.units < estimated_gas_cost(e.gas)
  \/ e.balance.units = estimated_gas_cost(e.gas) /\ e.balance.below > 0

\* C37: execution pre-checks (testbot.py).  A call of _execute_arbitrage
\* that found the gas price above the configured limit, the balance below
\* the estimated gas cost, or one of the two pools of the fee tier missing
\* has neither signed nor sent a transaction.
ExecutionPreChecks ==
  (testbot.last # NoExecution
     /\ \/ testbot.last.gas > 10 * testbot.gas_price_gwei_limit
        \/ BalanceBelowEstimatedCost(testbot.last)
        \/ << testbot.last.fee, "uniswap" >> \notin testbot.pools
        \/ << testbot.last.fee, "sushiswap" >> \notin testbot.pools)
    => (~testbot.last.signed /\ ~testbot.last.sent)
====
